---- MODULE Spec2Model ----
(***************************************************************************)
(* A model of the Teak DSP interpreter core (src/src/interpreter.h): the   *)
(* control engine of Interpreter::Run (fetch, single-instruction repeat,   *)
(* block repeat, interrupt acceptance), the PC stack, the block-repeat     *)
(* stack and the accumulator write paths.                                  *)
(*                                                                         *)
(* Widths.  u16 values are naturals below 2^16.  u32 values (pc, viaddr,   *)
(* the frame addresses) are kept in two's complement: a value v < 2^31 is  *)
(* itself and a value v >= 2^31 is v - 2^32, so that ++, -- and += wrap as *)
(* in the source.  u64 values (the accumulators) are four 16-bit limbs     *)
(* <<w0, w1, w2, w3>>, least significant first.                            *)
(***************************************************************************)
EXTENDS Integers, Sequences, FiniteSets, TLC

VARIABLES regs, mem, pmem, alpha, fatal, ncycles, obs, reptrk, looptrk, stk

vars == <<regs, mem, pmem, alpha, fatal, ncycles, obs, reptrk, looptrk, stk>>

(***************************************************************************)
(* Bounds of the model.                                                    *)
(***************************************************************************)
MaxCycles == 9
IntCycles == 4
MaxCount == 2
MaxDepth == 2
AccSteps == 2

(***************************************************************************)
(* Integer helpers.                                                        *)
(***************************************************************************)
Pow2(n) == 2 ^ n

Bit(x, i) == (x \div Pow2(i)) % 2

U16(x) == x % 65536

\* SignExtend<7, u32>(x): the 7-bit field x as a u32 (two's complement).
SignExtend7(x) == IF Bit(x, 6) = 1 THEN (x % 128) - 128 ELSE x % 128

\* An unsigned comparison new_pc >= 0x40000 on a u32 kept in two's complement.
AtLeast40000(v) == v < 0 \/ v >= 262144

(***************************************************************************)
(* u64 values as four 16-bit limbs.                                        *)
(***************************************************************************)
Zero64 == <<0, 0, 0, 0>>

\* The u64 of an integer n with -2^31 < n < 2^31 (sign extended to 64 bits).
FromInt(n) ==
    <<n % 65536, (n \div 65536) % 65536,
      IF n < 0 THEN 65535 ELSE 0, IF n < 0 THEN 65535 ELSE 0>>

U64Bit(v, i) == Bit(v[(i \div 16) + 1], i % 16)

\* SignExtend<n>(v) on u64: bits n..63 become copies of bit n-1.
SignExtend(n, v) ==
    LET sign == U64Bit(v, n - 1)
        limb(i) ==
            IF 16 * i >= n THEN sign * 65535
            ELSE IF 16 * (i + 1) <= n THEN v[i + 1]
            ELSE (v[i + 1] % Pow2(n - 16 * i))
                 + sign * (65536 - Pow2(n - 16 * i))
    IN  <<limb(0), limb(1), limb(2), limb(3)>>

\* value & 0xFF'FFFF'FFFF
Mask40(v) == <<v[1], v[2], v[3] % 256, 0>>

\* a + b, ~a and a - b on u64 (modulo 2^64).
Add64(a, b) ==
    LET s1 == a[1] + b[1]
        s2 == a[2] + b[2] + (s1 \div 65536)
        s3 == a[3] + b[3] + (s2 \div 65536)
        s4 == a[4] + b[4] + (s3 \div 65536)
    IN  <<s1 % 65536, s2 % 65536, s3 % 65536, s4 % 65536>>

Not64(a) == <<65535 - a[1], 65535 - a[2], 65535 - a[3], 65535 - a[4]>>

Sub64(a, b) == Add64(Add64(a, Not64(b)), <<1, 0, 0, 0>>)

\* The u64 whose bit i is f(i).
FromBits(f(_)) ==
    LET limb(k) ==
            LET sum[j \in 0..16] ==
                    IF j = 16 THEN 0 ELSE f(16 * k + j) * Pow2(j) + sum[j + 1]
            IN  sum[0]
    IN  <<limb(0), limb(1), limb(2), limb(3)>>

\* v << n and v >> n on u64, 0 <= n < 64.
Shl64(v, n) == FromBits(LAMBDA i : IF i >= n THEN U64Bit(v, i - n) ELSE 0)

\* A faulty variant of Shr64: one position too many.
Shr64_one_more(v, n) ==
    FromBits(LAMBDA i : IF i + n + 1 <= 63 THEN U64Bit(v, i + n + 1) ELSE 0)

Shr64(v, n) == FromBits(LAMBDA i : IF i + n <= 63 THEN U64Bit(v, i + n) ELSE 0)

Or64(a, b) == FromBits(LAMBDA i : IF U64Bit(a, i) = 1 \/ U64Bit(b, i) = 1 THEN 1 ELSE 0)

\* SignExtend<16, u64>(x) of a u16.
SignExtend16(x) == FromInt(IF x >= 32768 THEN x - 65536 ELSE x)

\* 0xFFFF'FFFF'8000'0000 and 0x0000'0000'7FFF'FFFF
Min32 == <<0, 32768, 65535, 65535>>

Max32 == <<65535, 32767, 0, 0>>

(***************************************************************************)
(* The memory interface.  Data memory is plain RAM: a word that was never  *)
(* written reads as 0.                                                     *)
(***************************************************************************)
DataRead(m, a) == IF a \in DOMAIN m THEN m[a] ELSE 0

DataWrite(m, a, v) == [x \in (DOMAIN m) \cup {a} |-> IF x = a THEN v ELSE m[x]]

\* The words ProgramRead may return at address a: the word bound there, or,
\* for an address not yet read, any word of the program alphabet.
ProgramWords(pm, al, a) == IF a \in DOMAIN pm THEN {pm[a]} ELSE al

Bind(pm, a, w) == [x \in (DOMAIN pm) \cup {a} |-> IF x = a THEN w ELSE pm[x]]


(***************************************************************************)
(* A 16-bit bitwise OR (the |= of StoreBlockRepeat's flag word).           *)
(***************************************************************************)
Or16(a, b) ==
    LET f[i \in 0..16] ==
            IF i = 16 THEN 0
            ELSE (IF Bit(a, i) = 1 \/ Bit(b, i) = 1 THEN Pow2(i) ELSE 0) + f[i + 1]
    IN  f[0]

(***************************************************************************)
(* The register file.  register.h is not among the sources: the accessors  *)
(* below follow the specification's description of the PC split, of the    *)
(* condition codes and of the shadow bank.                                 *)
(***************************************************************************)
GetPcL(r) == r.pc % 65536

GetPcH(r) == (r.pc \div 65536) % 4

\* pc = low | (high << 16), a u32.
SetPC(r, l, h) == [r EXCEPT !.pc = l + 65536 * (IF h >= 32768 THEN h - 65536 ELSE h)]

\* Condition 0 is "always"; condition 1 is "eq" (Z set).
ConditionPass(r, cond) == cond = 0 \/ (cond = 1 /\ r.fz = 1)

\* ShadowStore keeps a copy of the flags, ShadowSwap exchanges the live and
\* the shadow bank (bank tells which one is live).
ShadowStore(r) == [r EXCEPT !.shadow = [fz |-> r.fz, fm |-> r.fm, fe |-> r.fe, fn |-> r.fn]]

ShadowRestore(r) ==
    [r EXCEPT !.fz = r.shadow.fz, !.fm = r.shadow.fm, !.fe = r.shadow.fe, !.fn = r.shadow.fn]

ShadowSwap(r) == [r EXCEPT !.bank = 1 - r.bank]

(***************************************************************************)
(* The decode table.  decoder.h is not among the sources: a program word   *)
(* decodes to a handler name, whether an expansion word follows, and the   *)
(* operand fields a (Imm8 or RelAddr7) and c (Cond).                       *)
(***************************************************************************)
Decode(w) ==
    IF w = 0 THEN [name |-> "nop", need |-> FALSE, a |-> 0, c |-> 0]
    ELSE IF w \div 256 = 12 THEN [name |-> "rep", need |-> FALSE, a |-> w % 256, c |-> 0]
    ELSE IF w \div 256 = 92 THEN [name |-> "bkrep", need |-> TRUE, a |-> w % 256, c |-> 0]
    ELSE IF w \div 2048 = 10
         THEN [name |-> "brr", need |-> FALSE, a |-> (w \div 16) % 128, c |-> w % 16]
    ELSE IF w = 54208 THEN [name |-> "break", need |-> FALSE, a |-> 0, c |-> 0]
    ELSE IF w = 17280 THEN [name |-> "eint", need |-> FALSE, a |-> 0, c |-> 0]
    ELSE IF w = 17344 THEN [name |-> "dint", need |-> FALSE, a |-> 0, c |-> 0]
    ELSE IF w = 24320 THEN [name |-> "mov_r6", need |-> TRUE, a |-> 0, c |-> 0]
    ELSE IF w = 24384 THEN [name |-> "bkreprst_memsp", need |-> FALSE, a |-> 0, c |-> 0]
    ELSE IF w = 24392 THEN [name |-> "bkrepsto_memsp", need |-> FALSE, a |-> 0, c |-> 0]
    ELSE IF w = 34923 THEN [name |-> "mov_pc", need |-> FALSE, a |-> 0, c |-> 0]
    ELSE IF w = 54144 THEN [name |-> "cntx_s", need |-> FALSE, a |-> 0, c |-> 0]
    ELSE IF w = 55168 THEN [name |-> "retd", need |-> FALSE, a |-> 0, c |-> 0]
    ELSE IF w = 54160 THEN [name |-> "cntx_r", need |-> FALSE, a |-> 0, c |-> 0]
    ELSE IF w \div 16 = 1112 THEN [name |-> "ret", need |-> FALSE, a |-> 0, c |-> w % 16]
    ELSE IF w \div 16 = 1116 THEN [name |-> "reti", need |-> FALSE, a |-> 0, c |-> w % 16]
    ELSE IF w \div 16 = 1117 THEN [name |-> "retic", need |-> FALSE, a |-> 0, c |-> w % 16]
    ELSE [name |-> "undefined", need |-> FALSE, a |-> 0, c |-> 0]

\* The program word of an instruction (the inverse of Decode).
Encode(name, a, c) ==
    CASE name = "nop" -> 0
      [] name = "rep" -> 3072 + a
      [] name = "bkrep" -> 23552 + a
      [] name = "brr" -> 20480 + 16 * a + c
      [] name = "break" -> 54208
      [] name = "eint" -> 17280
      [] name = "dint" -> 17344
      [] name = "mov_r6" -> 24320
      [] name = "bkreprst_memsp" -> 24384
      [] name = "bkrepsto_memsp" -> 24392
      [] name = "mov_pc" -> 34923
      [] name = "cntx_s" -> 54144
      [] name = "retd" -> 55168
      [] name = "cntx_r" -> 54160
      [] name = "ret" -> 17792 + c
      [] name = "reti" -> 17856 + c
      [] name = "retic" -> 17872 + c

(***************************************************************************)
(* The machine a handler acts on: the register file, the data memory and   *)
(* the exception in flight ("none" while no handler has thrown).           *)
(***************************************************************************)
Throw(s, what) == [s EXCEPT !.thrown = what]

\* A faulty variant of PushPC: pc_endian selects the other order.
PushPC_other_endian(s) ==
    LET l == GetPcL(s.regs)
        h == GetPcH(s.regs)
        sp1 == U16(s.regs.sp - 1)
        sp2 == U16(s.regs.sp - 2)
    IN  IF s.regs.pc_endian = 0
        THEN [s EXCEPT !.mem = DataWrite(DataWrite(s.mem, sp1, h), sp2, l), !.regs.sp = sp2]
        ELSE [s EXCEPT !.mem = DataWrite(DataWrite(s.mem, sp1, l), sp2, h), !.regs.sp = sp2]

PushPC(s) ==
    LET l == GetPcL(s.regs)
        h == GetPcH(s.regs)
        sp1 == U16(s.regs.sp - 1)
        sp2 == U16(s.regs.sp - 2)
    IN  IF s.regs.pc_endian = 1
        THEN [s EXCEPT !.mem = DataWrite(DataWrite(s.mem, sp1, h), sp2, l), !.regs.sp = sp2]
        ELSE [s EXCEPT !.mem = DataWrite(DataWrite(s.mem, sp1, l), sp2, h), !.regs.sp = sp2]

\* A faulty variant of PopPC: the two words are taken in the other order.
PopPCSwapped(s) ==
    LET first == DataRead(s.mem, s.regs.sp)
        second == DataRead(s.mem, U16(s.regs.sp + 1))
        sp2 == U16(s.regs.sp + 2)
    IN  IF s.regs.pc_endian = 1
        THEN [s EXCEPT !.regs = [SetPC(s.regs, second, first) EXCEPT !.sp = sp2]]
        ELSE [s EXCEPT !.regs = [SetPC(s.regs, first, second) EXCEPT !.sp = sp2]]

PopPC(s) ==
    LET first == DataRead(s.mem, s.regs.sp)
        second == DataRead(s.mem, U16(s.regs.sp + 1))
        sp2 == U16(s.regs.sp + 2)
    IN  IF s.regs.pc_endian = 1
        THEN [s EXCEPT !.regs = [SetPC(s.regs, first, second) EXCEPT !.sp = sp2]]
        ELSE [s EXCEPT !.regs = [SetPC(s.regs, second, first) EXCEPT !.sp = sp2]]

SetPC_Save(s, new_pc) ==
    IF AtLeast40000(new_pc) THEN Throw(s, "pc flies")
    ELSE [s EXCEPT !.regs.pc = new_pc]


(***************************************************************************)
(* Accumulator flags and the accumulator store.                            *)
(***************************************************************************)
\* A faulty variant of SetAccFlag: fn ignores the extension flag.
SetAccFlag_n_without_e(s, value) ==
    IF value # SignExtend(40, value) THEN Throw(s, "remove this check later")
    ELSE LET z == IF value = Zero64 THEN 1 ELSE 0
             e == IF value # SignExtend(32, value) THEN 1 ELSE 0
             n == IF z = 1 \/ U64Bit(value, 31) # U64Bit(value, 30) THEN 1 ELSE 0
             m == IF value[3] >= 128 \/ value[4] # 0 THEN 1 ELSE 0
         IN  [s EXCEPT !.regs.fz = z, !.regs.fm = m,
                       !.regs.fe = e, !.regs.fn = n]

SetAccFlag(s, value) ==
    IF value # SignExtend(40, value) THEN Throw(s, "remove this check later")
    ELSE LET z == IF value = Zero64 THEN 1 ELSE 0
             e == IF value # SignExtend(32, value) THEN 1 ELSE 0
             n == IF z = 1 \/ (e = 0 /\ U64Bit(value, 31) # U64Bit(value, 30)) THEN 1 ELSE 0
             m == IF value[3] >= 128 \/ value[4] # 0 THEN 1 ELSE 0
         IN  [s EXCEPT !.regs.fz = z, !.regs.fm = m,
                       !.regs.fe = e, !.regs.fn = n]

\* The operators below that compute a value and set flags yield the record
\* [m |-> machine, v |-> value].
SaturateAcc_Unconditional(s, value) ==
    IF value # SignExtend(32, value)
    THEN [m |-> [s EXCEPT !.regs.fls = 1],
          v |-> IF value[3] >= 128 \/ value[4] # 0 THEN Min32 ELSE Max32]
    ELSE [m |-> s, v |-> value]

\* A faulty variant of SaturateAcc: sar[storing] is not looked at.
SaturateAcc_ignores_sar(s, value, storing) == SaturateAcc_Unconditional(s, value)

SaturateAcc(s, value, storing) ==
    IF s.regs.sar[storing] = 0 THEN SaturateAcc_Unconditional(s, value)
    ELSE [m |-> s, v |-> value]

\* name is the accumulator a register name belongs to: a0, a1, b0 or b1.
GetAcc(s, name) == s.regs[name]

SetAcc_Simple(s, name, value) == [s EXCEPT !.regs[name] = value]

\* A faulty variant of SetAcc: the value is stored as it comes.
SetAcc_unsaturated(s, name, value, no_saturation) ==
    LET f == SetAccFlag(s, value)
    IN  IF f.thrown # "none" THEN f ELSE SetAcc_Simple(f, name, value)

SetAcc(s, name, value, no_saturation) ==
    LET f == SetAccFlag(s, value)
        sat == IF no_saturation THEN [m |-> f, v |-> value] ELSE SaturateAcc(f, value, 1)
    IN  IF f.thrown # "none" THEN f ELSE SetAcc_Simple(sat.m, name, sat.v)

SetAcc_NoSaturation(s, name, value) == SetAcc(s, name, value, TRUE)

\* A faulty variant of ContextStore: b1 reaches a1 through the saturation.
ContextStore_saturating(s) ==
    LET r == ShadowSwap(ShadowStore(s.regs))
        a == r.a1
        b == r.b1
    IN  SetAcc([s EXCEPT !.regs = [r EXCEPT !.b1 = a]], "a1", b, FALSE)

ContextStore(s) ==
    LET r == ShadowSwap(ShadowStore(s.regs))
        a == r.a1
        b == r.b1
    IN  SetAcc_NoSaturation([s EXCEPT !.regs = [r EXCEPT !.b1 = a]], "a1", b)

ContextRestore(s) ==
    LET r == ShadowSwap(ShadowRestore(s.regs))
    IN  [s EXCEPT !.regs = [r EXCEPT !.a1 = r.b1, !.b1 = r.a1]]

cntx_s(s) == ContextStore(s)

cntx_r(s) == ContextRestore(s)

(***************************************************************************)
(* Single-instruction repeat and block repeat.                             *)
(***************************************************************************)
Repeat(s, repc) == [s EXCEPT !.regs.repc = repc, !.regs.rep = TRUE]

\* A faulty variant of BlockRepeat: the overflow test is off by one.
BlockRepeat_overflow_late(s, lc, address) ==
    IF s.regs.bcn > 4 THEN Throw(s, "stack overflow")
    ELSE [s EXCEPT !.regs.bkrep_stack =
                        [i \in 0..3 |-> IF i = s.regs.bcn
                                        THEN [start |-> s.regs.pc, end |-> address, lc |-> lc]
                                        ELSE s.regs.bkrep_stack[i]],
                   !.regs.lp = 1,
                   !.regs.bcn = s.regs.bcn + 1]

BlockRepeat(s, lc, address) ==
    IF s.regs.bcn > 3 THEN Throw(s, "stack overflow")
    ELSE [s EXCEPT !.regs.bkrep_stack[s.regs.bcn] =
                        [start |-> s.regs.pc, end |-> address, lc |-> lc],
                   !.regs.lp = 1,
                   !.regs.bcn = s.regs.bcn + 1]

\* bkrep(Imm8 a, Address16 addr): the end address lies in the page of pc.
bkrep(s, a, addr) ==
    BlockRepeat(s, a, addr + 65536 * ((s.regs.pc \div 65536) % 4))

\* A faulty variant of break_: it leaves the block as well.
break_jumps(s) ==
    IF s.regs.lp = 0 THEN Throw(s, "not in a loop")
    ELSE [s EXCEPT !.regs.bcn = U16(s.regs.bcn - 1),
                   !.regs.lp = IF U16(s.regs.bcn - 1) # 0 THEN 1 ELSE 0,
                   !.regs.pc = s.regs.bkrep_stack[s.regs.bcn - 1].end + 1]

break_(s) ==
    IF s.regs.lp = 0 THEN Throw(s, "not in a loop")
    ELSE [s EXCEPT !.regs.bcn = U16(s.regs.bcn - 1),
                   !.regs.lp = IF U16(s.regs.bcn - 1) # 0 THEN 1 ELSE 0]

\* std::copy_backward(begin, begin + bcn, begin + 1) writes the slots
\* 1 - bcn .. 0.  Slot 0 receives frame bcn - 1; for bcn >= 2 the slots below
\* 0 lie before the array: an out-of-bounds write (undefined behaviour).
\* Its outcome u is one of: the bytes hit hold nothing the model keeps
\* ("none"), or they hold bcn or lp, which then receive frame data.
UBOutcomes == {"none", "bcn", "lp"}

CopyBackwardOutOfBounds(r) == r.lp # 0 /\ r.bcn >= 2 /\ r.bcn <= 3

CopyBackward(r, u) ==
    LET moved == [r EXCEPT !.bkrep_stack[0] = r.bkrep_stack[r.bcn - 1]]
    IN  IF ~CopyBackwardOutOfBounds(r) THEN moved
        ELSE CASE u = "none" -> moved
               [] u = "bcn" -> [moved EXCEPT !.bcn = r.bkrep_stack[r.bcn - 2].lc]
               [] u = "lp" -> [moved EXCEPT !.lp = 0]

\* RestoreBlockRepeat(u16& address_reg); f names the register passed.
RestoreBlockRepeat(s, f, u) ==
    IF s.regs.lp # 0 /\ s.regs.bcn > 3 THEN Throw(s, "stack overflow")
    ELSE
    LET r1 == IF s.regs.lp # 0
              THEN LET c == CopyBackward(s.regs, u)
                   IN  [c EXCEPT !.bcn = U16(c.bcn + 1)]
              ELSE s.regs
        ar1 == U16(s.regs[f] + 1)
        ar2 == U16(s.regs[f] + 2)
        ar3 == U16(s.regs[f] + 3)
        ar4 == U16(s.regs[f] + 4)
        flag == DataRead(s.mem, ar1)
        valid == flag \div 32768
    IN  IF r1.lp # 0 /\ valid = 0
        THEN [s EXCEPT !.regs = [r1 EXCEPT ![f] = ar1],
                       !.thrown = "pop invalid loop below valid loop"]
        ELSE LET r2 == IF r1.lp = 0 /\ valid # 0
                       THEN [r1 EXCEPT !.lp = 1, !.bcn = 1]
                       ELSE r1
                 frame == [end |-> DataRead(s.mem, ar2) + 65536 * ((flag \div 256) % 4),
                           start |-> DataRead(s.mem, ar3) + 65536 * (flag % 4),
                           lc |-> DataRead(s.mem, ar4)]
             IN  [s EXCEPT !.regs = [r2 EXCEPT !.bkrep_stack[0] = frame, ![f] = ar4]]

\* A faulty variant of StoreBlockRepeat: end is written above start.
StoreBlockRepeat_end_first(s, f) ==
    LET r == s.regs
        ar == r[f]
        top == r.bkrep_stack[0]
        hi == (top.start \div 65536) % 65536
        flag == Or16(Or16(U16(r.lp * 32768), hi), U16(hi * 256))
        m4 == DataWrite(DataWrite(DataWrite(DataWrite(s.mem,
                  ar, top.lc),
                  U16(ar - 1), top.end % 65536),
                  U16(ar - 2), top.start % 65536),
                  U16(ar - 3), flag)
        r1 == [r EXCEPT ![f] = U16(ar - 4)]
        shifted == [i \in 0..3 |-> IF i + 1 < r.bcn /\ i + 1 <= 3
                                   THEN r.bkrep_stack[i + 1] ELSE r.bkrep_stack[i]]
    IN  IF r.lp # 0
        THEN [s EXCEPT !.mem = m4,
                       !.regs = [r1 EXCEPT !.bkrep_stack = shifted,
                                           !.bcn = U16(r.bcn - 1),
                                           !.lp = IF U16(r.bcn - 1) = 0 THEN 0 ELSE r.lp]]
        ELSE [s EXCEPT !.mem = m4, !.regs = r1]

\* StoreBlockRepeat(u16& address_reg); f names the register passed.
StoreBlockRepeat(s, f) ==
    LET r == s.regs
        ar == r[f]
        top == r.bkrep_stack[0]
        hi == (top.start \div 65536) % 65536
        flag == Or16(Or16(U16(r.lp * 32768), hi), U16(hi * 256))
        m4 == DataWrite(DataWrite(DataWrite(DataWrite(s.mem,
                  ar, top.lc),
                  U16(ar - 1), top.start % 65536),
                  U16(ar - 2), top.end % 65536),
                  U16(ar - 3), flag)
        r1 == [r EXCEPT ![f] = U16(ar - 4)]
        shifted == [i \in 0..3 |-> IF i + 1 < r.bcn /\ i + 1 <= 3
                                   THEN r.bkrep_stack[i + 1] ELSE r.bkrep_stack[i]]
    IN  IF r.lp # 0
        THEN [s EXCEPT !.mem = m4,
                       !.regs = [r1 EXCEPT !.bkrep_stack = shifted,
                                           !.bcn = U16(r.bcn - 1),
                                           !.lp = IF U16(r.bcn - 1) = 0 THEN 0 ELSE r.lp]]
        ELSE [s EXCEPT !.mem = m4, !.regs = r1]

br(s, addr_low, addr_high, cond) ==
    IF ConditionPass(s.regs, cond)
    THEN [s EXCEPT !.regs = SetPC(s.regs, addr_low, addr_high)]
    ELSE s

brr(s, addr, cond) ==
    IF ConditionPass(s.regs, cond)
    THEN [s EXCEPT !.regs.pc = s.regs.pc + SignExtend7(addr)]
    ELSE s

\* GetAcc(a1) & 0xFFFFFFFF as a u32.
Low32(v) == v[1] + 65536 * (IF v[2] >= 32768 THEN v[2] - 65536 ELSE v[2])

mov_pc(s) == SetPC_Save(s, Low32(s.regs.a1))

mov_r6(s, a) == [s EXCEPT !.regs.r[6] = a]

eint(s) == [s EXCEPT !.regs.ie = 1]

dint(s) == [s EXCEPT !.regs.ie = 0]

undefined(s) == Throw(s, "undefined code!")

retd(s) == Throw(s, "unimplemented")

ret(s, c) == IF ConditionPass(s.regs, c) THEN PopPC(s) ELSE s

\* A faulty variant of reti: interrupts stay disabled.
reti_keeps_ie(s, c) == IF ConditionPass(s.regs, c) THEN PopPC(s) ELSE s

reti(s, c) ==
    IF ConditionPass(s.regs, c)
    THEN [PopPC(s) EXCEPT !.regs.ie = 1]
    ELSE s

retic(s, c) ==
    IF ConditionPass(s.regs, c)
    THEN ContextRestore([PopPC(s) EXCEPT !.regs.ie = 1])
    ELSE s

(***************************************************************************)
(* Accumulator instructions.  The operands an instruction reads from data  *)
(* memory through an address register are given as arguments.              *)
(***************************************************************************)
\* A faulty variant of AddSub: the result is returned as computed, without
\* the sign extension from bit 39.
AddSub_unextended(s, a0, b0, sub) ==
    LET a == Mask40(a0)
        b == Mask40(b0)
        result == IF sub THEN Sub64(a, b) ELSE Add64(a, b)
        bb == IF sub THEN Not64(b) ELSE b
        fv == IF U64Bit(a, 39) = U64Bit(bb, 39) /\ U64Bit(a, 39) # U64Bit(result, 39)
              THEN 1 ELSE 0
    IN  [m |-> [s EXCEPT !.regs.fc0 = U64Bit(result, 40), !.regs.fv = fv,
                         !.regs.flv = IF fv = 1 THEN 1 ELSE @],
         v |-> result]

\* A faulty variant of AddSub: the carry is taken out of bit 31.
AddSub_carry32(s, a0, b0, sub) ==
    LET a == Mask40(a0)
        b == Mask40(b0)
        result == IF sub THEN Sub64(a, b) ELSE Add64(a, b)
        bb == IF sub THEN Not64(b) ELSE b
        fv == IF U64Bit(a, 39) = U64Bit(bb, 39) /\ U64Bit(a, 39) # U64Bit(result, 39)
              THEN 1 ELSE 0
    IN  [m |-> [s EXCEPT !.regs.fc0 = U64Bit(result, 32), !.regs.fv = fv,
                         !.regs.flv = IF fv = 1 THEN 1 ELSE @],
         v |-> SignExtend(40, result)]

AddSub(s, a0, b0, sub) ==
    LET a == Mask40(a0)
        b == Mask40(b0)
        result == IF sub THEN Sub64(a, b) ELSE Add64(a, b)
        bb == IF sub THEN Not64(b) ELSE b
        fv == IF U64Bit(a, 39) = U64Bit(bb, 39) /\ U64Bit(a, 39) # U64Bit(result, 39)
              THEN 1 ELSE 0
    IN  [m |-> [s EXCEPT !.regs.fc0 = U64Bit(result, 40), !.regs.fv = fv,
                         !.regs.flv = IF fv = 1 THEN 1 ELSE @],
         v |-> SignExtend(40, result)]

\* ExtendOprandForAlm for Add, Sub (sign extension) and Addh, Subh (high word).
ExtendOprandForAlm(op, a) ==
    IF op \in {"Add", "Sub"} THEN SignExtend16(a)
    ELSE SignExtend(32, <<0, a, 0, 0>>)

\* alu(Alu op, Imm16 a, Ax b) for op in Add, Sub, Addh, Subh.
alu(s, op, a, b) ==
    LET r == AddSub(s, GetAcc(s, b), ExtendOprandForAlm(op, a), op \in {"Sub", "Subh"})
    IN  SetAcc(r.m, b, r.v, FALSE)

\* A faulty variant of ShiftLeft: a shift by 40 or more keeps bit 0 as carry.
ShiftLeft_keeps_carry(s, value, sv) ==
    LET s0 == s.regs.s = 0
    IN  IF sv >= 40
        THEN [v |-> Zero64, fc0 |-> U64Bit(value, 0),
              fv |-> IF s0 THEN (IF value # Zero64 THEN 1 ELSE 0) ELSE s.regs.fv]
        ELSE [v |-> Shl64(value, sv), fc0 |-> U64Bit(Shl64(value, sv), 40),
              fv |-> IF s0
                     THEN (IF SignExtend(40, value) # SignExtend(40 - sv, value)
                           THEN 1 ELSE 0)
                     ELSE s.regs.fv]

\* The left shift of ShiftBus40 (0 <= sv < 0x8000): the value and the flags
\* C and V it leaves.
ShiftLeft(s, value, sv) ==
    LET s0 == s.regs.s = 0
    IN  IF sv >= 40
        THEN [v |-> Zero64, fc0 |-> 0,
              fv |-> IF s0 THEN (IF value # Zero64 THEN 1 ELSE 0) ELSE s.regs.fv]
        ELSE [v |-> Shl64(value, sv), fc0 |-> U64Bit(Shl64(value, sv), 40),
              fv |-> IF s0
                     THEN (IF SignExtend(40, value) # SignExtend(40 - sv, value)
                           THEN 1 ELSE 0)
                     ELSE s.regs.fv]

\* A faulty variant of ShiftRight: the vacated bits are filled with zeros.
ShiftRight_logical(s, value, nsv) ==
    LET s0 == s.regs.s = 0
    IN  IF nsv >= 40
        THEN IF s0
             THEN [v |-> Zero64, fc0 |-> U64Bit(value, 39), fv |-> 0]
             ELSE [v |-> Zero64, fc0 |-> 0, fv |-> s.regs.fv]
        ELSE [v |-> Shr64(value, nsv),
              fc0 |-> U64Bit(value, nsv - 1),
              fv |-> IF s0 THEN 0 ELSE s.regs.fv]

\* The right shift of ShiftBus40 by nsv = -sv.
ShiftRight(s, value, nsv) ==
    LET s0 == s.regs.s = 0
    IN  IF nsv >= 40
        THEN IF s0
             THEN [v |-> IF U64Bit(value, 39) = 1 THEN <<65535, 65535, 255, 0>>
                         ELSE Zero64,
                   fc0 |-> U64Bit(value, 39), fv |-> 0]
             ELSE [v |-> Zero64, fc0 |-> 0, fv |-> s.regs.fv]
        ELSE [v |-> IF s0 THEN SignExtend(40 - nsv, Shr64(value, nsv))
                    ELSE Shr64(value, nsv),
              fc0 |-> U64Bit(value, nsv - 1),
              fv |-> IF s0 THEN 0 ELSE s.regs.fv]

ShiftBus40(s, value0, sv, dest) ==
    LET value == Mask40(value0)
        original_sign == U64Bit(value, 39)
        s0 == s.regs.s = 0
        nsv == (65536 - sv) % 65536
        left == sv < 32768
        \* the value and the flags fv, fc0 after the shift
        sh == IF left THEN ShiftLeft(s, value, sv) ELSE ShiftRight(s, value, nsv)
        v40 == SignExtend(40, sh.v)
        s1 == [s EXCEPT !.regs.fc0 = sh.fc0, !.regs.fv = sh.fv,
                        !.regs.flv = IF left /\ s0 /\ sh.fv = 1 THEN 1 ELSE @]
        s2 == SetAccFlag(s1, v40)
        sat == s0 /\ s.regs.sar[1] = 0 /\ (sh.fv = 1 \/ SignExtend(32, v40) # v40)
    IN  IF s2.thrown # "none" THEN s2
        ELSE IF sat
        THEN SetAcc_Simple([s2 EXCEPT !.regs.fls = 1], dest,
                           IF original_sign = 1 THEN Min32 ELSE Max32)
        ELSE SetAcc_Simple(s2, dest, v40)

shfc(s, a, b, cond) ==
    IF ConditionPass(s.regs, cond) THEN ShiftBus40(s, GetAcc(s, a), s.regs.sv, b) ELSE s

\* shfi(Ab a, Ab b, Imm6s s): sv is SignExtend<6, u16>(s).
shfi(s, a, b, imm) ==
    ShiftBus40(s, GetAcc(s, a), IF imm >= 32 THEN 65536 - (64 - imm) ELSE imm, b)

\* GenericAlb for Set and Addv.
GenericAlb(s, op, a, b) ==
    LET result == IF op = "Set" THEN Or16(a, b) ELSE (a + b) % 65536
        fm == IF op = "Set" THEN result \div 32768
              ELSE (IF (IF a >= 32768 THEN a - 65536 ELSE a)
                       + (IF b >= 32768 THEN b - 65536 ELSE b) < 0 THEN 1 ELSE 0)
    IN  [m |-> [s EXCEPT !.regs.fm = fm,
                         !.regs.fc0 = IF op = "Set" THEN @ ELSE (a + b) \div 65536,
                         !.regs.fz = IF result = 0 THEN 1 ELSE 0],
         v |-> result]

\* alb(Alb op, Imm16 a, Register b) with b the low (half = 1) or the high
\* (half = 2) word of the accumulator acc.
alb(s, op, a, acc, half) ==
    LET r == GenericAlb(s, op, a, GetAcc(s, acc)[half])
    IN  [r.m EXCEPT !.regs[acc][half] = r.v]

\* A faulty variant of add_add: the high sum is placed 24 bits up.
add_add_misplaced(s, di, dj, oi, oj, b) ==
    LET high == Add64(SignExtend16(dj), SignExtend16(di))
        low == (oj + oi) % 65536
    IN  SetAcc_Simple(s, b, Or64(Shl64(high, 24), <<low, 0, 0, 0>>))

\* add_add(ArpRn1 a, ArpStep1 asi, ArpStep1 asj, Ab b): di, dj are the words
\* at i and j, oi, oj those at the offset addresses.
add_add(s, di, dj, oi, oj, b) ==
    LET high == Add64(SignExtend16(dj), SignExtend16(di))
        low == (oj + oi) % 65536
    IN  SetAcc_Simple(s, b, Or64(Shl64(high, 16), <<low, 0, 0, 0>>))

CounterAcc(name) ==
    CASE name = "a0" -> "a1" [] name = "a1" -> "a0" [] name = "b0" -> "b1" [] name = "b1" -> "b0"

max_ge(s, a) ==
    LET u == GetAcc(s, a)
        v == GetAcc(s, CounterAcc(a))
        d == Sub64(v, u)
    IN  IF U64Bit(d, 63) = 0
        THEN SetAcc_Simple([s EXCEPT !.regs.fm = 1], a, v)
        ELSE [s EXCEPT !.regs.fm = 0]

MinMaxVtr(s, a, b, min) ==
    LET u == GetAcc(s, a)
        v == GetAcc(s, b)
        uh == SignExtend(24, Shr64(u, 16))
        ul == SignExtend16(u[1])
        vh == SignExtend(24, Shr64(v, 16))
        vl == SignExtend16(v[1])
        dh == IF min THEN Sub64(uh, vh) ELSE Sub64(vh, uh)
        dl == IF min THEN Sub64(ul, vl) ELSE Sub64(vl, ul)
        c0 == 1 - U64Bit(dh, 63)
        c1 == 1 - U64Bit(dl, 63)
        wh == IF c0 = 1 THEN vh ELSE uh
        wl == IF c1 = 1 THEN vl ELSE ul
        w == Or64(Shl64(wh, 16), <<wl[1], 0, 0, 0>>)
    IN  SetAcc_Simple([s EXCEPT !.regs.fc0 = c0, !.regs.fc1 = c1], a, w)

\* pop(Abe a): the extension byte of the accumulator comes from the stack.
pop(s, a) ==
    LET byte == DataRead(s.mem, s.regs.sp) % 256
        lo == IF byte >= 128 THEN 65280 + byte ELSE byte
        hi == IF byte >= 128 THEN 65535 ELSE 0
        target == GetAcc(s, a)
        s1 == [s EXCEPT !.regs.sp = U16(s.regs.sp + 1)]
    IN  SetAcc(s1, a, <<target[1], target[2], lo, hi>>, FALSE)

mov(s, a, b) == SetAcc(s, b, GetAcc(s, a), FALSE)

(***************************************************************************)
(* Address generation: the address registers r0..r7 with their modulo and  *)
(* bit-reverse modes.                                                      *)
(***************************************************************************)
And16(a, b) ==
    LET f[i \in 0..16] ==
            IF i = 16 THEN 0
            ELSE (IF Bit(a, i) = 1 /\ Bit(b, i) = 1 THEN Pow2(i) ELSE 0) + f[i + 1]
    IN  f[0]

Not16(a) == 65535 - a

\* BitReverse of a u16: bit i goes to bit 15 - i.
BitReverse(a) ==
    LET f[i \in 0..16] == IF i = 16 THEN 0 ELSE Bit(a, i) * Pow2(15 - i) + f[i + 1]
    IN  f[0]

\* SignExtend<n, u16>(x)
SignExtendU16(n, x) ==
    IF Bit(x, n - 1) = 1 THEN (x % Pow2(n)) + (65536 - Pow2(n)) ELSE x % Pow2(n)

\* mask |= m >> i for i = 0..8
Smear(m) ==
    LET f[i \in 0..9] == IF i = 9 THEN 0 ELSE Or16(m \div Pow2(i), f[i + 1])
    IN  f[0]

ConvertArStep(arvalue) ==
    CASE arvalue = 0 -> "Zero"
      [] arvalue = 1 -> "Increase"
      [] arvalue = 2 -> "Decrease"
      [] arvalue = 3 -> "PlusStep"
      [] arvalue = 4 -> "Increase2Mode1"
      [] arvalue = 5 -> "Decrease2Mode1"
      [] arvalue = 6 -> "Increase2Mode2"
      [] arvalue = 7 -> "Decrease2Mode2"

\* The step s that StepAddress derives from the step code.
StepOf(r, unit, step) ==
    LET legacy == r.legacy_mod # 0
        s0 == IF unit < 4 THEN r.stepi0 ELSE r.stepj0
        plain == IF r.brv[unit] # 0 /\ r.m[unit] = 0 THEN s0
                 ELSE SignExtendU16(7, IF unit < 4 THEN r.stepi ELSE r.stepj)
    IN  CASE step = "Zero" -> 0
          [] step = "Increase" -> 1
          [] step = "Decrease" -> 65535
          [] step \in {"Increase2Mode1", "Increase2Mode2"} -> 2
          [] step \in {"Decrease2Mode1", "Decrease2Mode2"} -> 65534
          [] step = "PlusStep" ->
                IF r.bankstep = 1 /\ ~legacy
                THEN (IF r.m[unit] # 0 THEN SignExtendU16(9, s0) ELSE s0)
                ELSE plain

\* A faulty variant of ModuloRound: the bits above the mask are dropped.
ModuloRound_drops_base(address, s, mod, old_rule, step2_mode2) ==
    LET mask == Smear(mod)
        n == And16(address, mask)
    IN  IF s < 32768 THEN (IF n = mod THEN 0 ELSE And16(U16(n + s), mask))
        ELSE (IF n = 0 THEN mod ELSE And16(U16(n + s), mask))

\* One round of the modulo update of StepAddress.
ModuloRound(address, s, mod, old_rule, step2_mode2) ==
    IF old_rule
    THEN LET negative == s >= 32768
             m == IF negative THEN Or16(mod, Not16(s)) ELSE Or16(mod, s)
             mask == Smear(m)
             stay == step2_mode2 /\ mod = mask
             next == IF ~negative
                     THEN (IF And16(address, mask) = mod /\ ~stay THEN 0
                           ELSE And16(U16(address + s), mask))
                     ELSE (IF And16(address, mask) = 0 /\ ~stay THEN mod
                           ELSE And16(U16(address + s), mask))
         IN  Or16(And16(address, Not16(mask)), next)
    ELSE LET mask == Smear(mod)
             next == IF s < 32768
                     THEN LET n == And16(U16(address + s), mask)
                          IN  IF n = And16(U16(mod + 1), mask) THEN 0 ELSE n
                     ELSE LET n == And16(address, mask)
                          IN  And16(U16((IF n = 0 THEN U16(mod + 1) ELSE n) + s), mask)
         IN  Or16(And16(address, Not16(mask)), next)

\* A faulty variant of StepAddress: modulo mode wraps at the mask.
StepAddress_wraps_at_mask(r, unit, address, step, dmod) ==
    LET s == StepOf(r, unit, step)
        mod == IF unit < 4 THEN r.modi ELSE r.modj
    IN  IF s = 0 THEN address
        ELSE IF ~dmod /\ r.brv[unit] = 0 /\ r.m[unit] # 0
        THEN Or16(And16(address, Not16(Smear(mod))), And16(U16(address + s), Smear(mod)))
        ELSE U16(address + s)

\* A faulty variant of StepAddress: the modulo update whatever the mode.
StepAddress_always_modulo(r, unit, address, step, dmod) ==
    LET s == StepOf(r, unit, step)
        mod == IF unit < 4 THEN r.modi ELSE r.modj
    IN  IF s = 0 \/ mod = 0 THEN address
        ELSE ModuloRound(address, s, mod, r.legacy_mod # 0, FALSE)

StepAddress(r, unit, address, step, dmod) ==
    LET legacy == r.legacy_mod # 0
        step2_mode1 == step \in {"Increase2Mode1", "Decrease2Mode1"} /\ ~legacy
        step2_mode2 == step \in {"Increase2Mode2", "Decrease2Mode2"} /\ ~legacy
        s == StepOf(r, unit, step)
        mod == IF unit < 4 THEN r.modi ELSE r.modj
        old_rule == legacy \/ step2_mode2
    IN  IF s = 0 THEN address
        ELSE IF ~dmod /\ r.brv[unit] = 0 /\ r.m[unit] # 0
        THEN IF mod = 0 THEN address
             ELSE IF mod = 1 /\ step2_mode2 THEN address
             ELSE IF step2_mode1
             THEN LET half == SignExtendU16(15, s \div 2)
                  IN  ModuloRound(ModuloRound(address, half, mod, old_rule, step2_mode2),
                                  half, mod, old_rule, step2_mode2)
             ELSE ModuloRound(address, s, mod, old_rule, step2_mode2)
        ELSE U16(address + s)

\* RnAndModify yields [m |-> machine, v |-> the value rU held].
RnAndModify(s, unit, step, dmod) ==
    LET value == s.regs.r[unit]
        zero == ((unit = 3 /\ s.regs.r3z # 0) \/ (unit = 7 /\ s.regs.r7z # 0))
                /\ step \notin {"Increase2Mode1", "Decrease2Mode1",
                                 "Increase2Mode2", "Decrease2Mode2"}
    IN  [m |-> [s EXCEPT !.regs.r[unit] =
                    IF zero THEN 0 ELSE StepAddress(s.regs, unit, value, step, dmod)],
         v |-> value]

RnAddress(r, unit, value) ==
    IF r.brv[unit] # 0 /\ r.m[unit] = 0 THEN BitReverse(value) ELSE value

RnAddressAndModify(s, unit, step, dmod) ==
    LET rm == RnAndModify(s, unit, step, dmod)
    IN  [m |-> rm.m, v |-> RnAddress(s.regs, unit, rm.v)]


(***************************************************************************)
(* Normalization, exponent detection and the division step.                *)
(***************************************************************************)
\* The names of StepZIDS.
StepZIDS(code) ==
    CASE code = 0 -> "Zero"
      [] code = 1 -> "Increase"
      [] code = 2 -> "Decrease"
      [] code = 3 -> "PlusStep"

\* A faulty variant of norm: it shifts whatever N is.
norm_unconditional(s, a, b, bs) ==
    LET value == GetAcc(s, a)
        fv == IF value # SignExtend(39, value) THEN 1 ELSE 0
        shifted == Shl64(value, 1)
        s1 == [s EXCEPT !.regs.fv = fv,
                        !.regs.flv = IF fv = 1 THEN 1 ELSE @,
                        !.regs.fc0 = U64Bit(shifted, 40)]
        s2 == SetAcc_NoSaturation(s1, a, SignExtend(40, shifted))
        s3 == RnAndModify(s2, b, bs, FALSE).m
    IN  IF s2.thrown # "none" THEN s2
        ELSE [s3 EXCEPT !.regs.fr = IF s3.regs.r[b] = 0 THEN 1 ELSE 0]

\* norm(Ax a, Rn b, StepZIDS bs)
norm(s, a, b, bs) ==
    IF s.regs.fn = 0
    THEN LET value == GetAcc(s, a)
             fv == IF value # SignExtend(39, value) THEN 1 ELSE 0
             shifted == Shl64(value, 1)
             s1 == [s EXCEPT !.regs.fv = fv,
                             !.regs.flv = IF fv = 1 THEN 1 ELSE @,
                             !.regs.fc0 = U64Bit(shifted, 40)]
             s2 == SetAcc_NoSaturation(s1, a, SignExtend(40, shifted))
             s3 == RnAndModify(s2, b, bs, FALSE).m
         IN  IF s2.thrown # "none" THEN s2
             ELSE [s3 EXCEPT !.regs.fr = IF s3.regs.r[b] = 0 THEN 1 ELSE 0]
    ELSE s

\* decoder.call(*this, opcode, expand_value)
Call(s, dec, expand_value, u) ==
    CASE dec.name = "nop" -> s
      [] dec.name = "rep" -> Repeat(s, dec.a)
      [] dec.name = "bkrep" -> bkrep(s, dec.a, expand_value)
      [] dec.name = "break" -> break_(s)
      [] dec.name = "brr" -> brr(s, dec.a, dec.c)
      [] dec.name = "eint" -> eint(s)
      [] dec.name = "dint" -> dint(s)
      [] dec.name = "mov_r6" -> mov_r6(s, expand_value)
      [] dec.name = "bkreprst_memsp" -> RestoreBlockRepeat(s, "sp", u)
      [] dec.name = "bkrepsto_memsp" -> StoreBlockRepeat(s, "sp")
      [] dec.name = "mov_pc" -> mov_pc(s)
      [] dec.name = "ret" -> ret(s, dec.c)
      [] dec.name = "reti" -> reti(s, dec.c)
      [] dec.name = "retic" -> retic(s, dec.c)
      [] dec.name = "cntx_s" -> cntx_s(s)
      [] dec.name = "retd" -> retd(s)
      [] dec.name = "cntx_r" -> cntx_r(s)
      [] OTHER -> undefined(s)


(***************************************************************************)
(* One iteration of the loop of Interpreter::Run.                          *)
(***************************************************************************)
\* opcode = ProgramRead(pc++); if NeedExpansion, expand_value = ProgramRead(pc++)
Fetch(s, dec) == [s EXCEPT !.regs.pc = s.regs.pc + (IF dec.need THEN 2 ELSE 1)]

\* A faulty variant of RepStep: the repeat ends one iteration early.
RepStepEarly(s) ==
    IF s.regs.rep
    THEN IF s.regs.repc <= 1
         THEN [s EXCEPT !.regs.rep = FALSE]
         ELSE [s EXCEPT !.regs.repc = s.regs.repc - 1, !.regs.pc = s.regs.pc - 1]
    ELSE s

\* if (regs.rep) ...
RepStep(s) ==
    IF s.regs.rep
    THEN IF s.regs.repc = 0
         THEN [s EXCEPT !.regs.rep = FALSE]
         ELSE [s EXCEPT !.regs.repc = s.regs.repc - 1, !.regs.pc = s.regs.pc - 1]
    ELSE s

LoopEnd(r) == r.lp # 0 /\ r.bkrep_stack[r.bcn - 1].end + 1 = r.pc

\* A faulty variant of LoopStep: the frame is popped one pass early.
LoopStepEarly(s) ==
    IF LoopEnd(s.regs)
    THEN IF s.regs.bkrep_stack[s.regs.bcn - 1].lc <= 1
         THEN [s EXCEPT !.regs.bcn = s.regs.bcn - 1,
                        !.regs.lp = IF s.regs.bcn - 1 # 0 THEN 1 ELSE 0]
         ELSE [s EXCEPT !.regs.bkrep_stack[s.regs.bcn - 1].lc = @ - 1,
                        !.regs.pc = s.regs.bkrep_stack[s.regs.bcn - 1].start]
    ELSE s

\* A faulty variant of LoopStep: the counter tested and counted down is the
\* one of slot 0.
LoopStep_slot_zero(s) ==
    IF LoopEnd(s.regs)
    THEN IF s.regs.bkrep_stack[0].lc = 0
         THEN [s EXCEPT !.regs.bcn = s.regs.bcn - 1,
                        !.regs.lp = IF s.regs.bcn - 1 # 0 THEN 1 ELSE 0]
         ELSE [s EXCEPT !.regs.bkrep_stack[0].lc = @ - 1,
                        !.regs.pc = s.regs.bkrep_stack[s.regs.bcn - 1].start]
    ELSE s

\* if (regs.lp && regs.bkrep_stack[regs.bcn - 1].end + 1 == regs.pc) ...
LoopStep(s) ==
    IF LoopEnd(s.regs)
    THEN IF s.regs.bkrep_stack[s.regs.bcn - 1].lc = 0
         THEN [s EXCEPT !.regs.bcn = s.regs.bcn - 1,
                        !.regs.lp = IF s.regs.bcn - 1 # 0 THEN 1 ELSE 0]
         ELSE [s EXCEPT !.regs.bkrep_stack[s.regs.bcn - 1].lc = @ - 1,
                        !.regs.pc = s.regs.bkrep_stack[s.regs.bcn - 1].start]
    ELSE s

\* The regular interrupt the for loop takes: the lowest i with im[i] && ip[i].
Pending(r) == {i \in 0..2 : r.im[i] # 0 /\ r.ip[i] # 0}

\* A faulty variant of Lowest: the scan keeps the last match.
Highest(S) == CHOOSE i \in S : \A j \in S : i >= j

Lowest(S) == CHOOSE i \in S : \A j \in S : i <= j

\* A faulty variant of TakeInterrupt: every pending bit is cleared.
TakeInterrupt_clears_pending(s, i) ==
    LET s1 == PushPC([s EXCEPT !.regs.ip = [j \in 0..2 |-> 0], !.regs.ie = 0])
        s2 == [s1 EXCEPT !.regs.pc = 6 + i * 8]
    IN  IF s2.regs.ic[i] # 0 THEN ContextStore(s2) ELSE s2

TakeInterrupt(s, i) ==
    LET s1 == PushPC([s EXCEPT !.regs.ip[i] = 0, !.regs.ie = 0])
        s2 == [s1 EXCEPT !.regs.pc = 6 + i * 8]
    IN  IF s2.regs.ic[i] # 0 THEN ContextStore(s2) ELSE s2

TakeVectoredInterrupt(s) ==
    LET s1 == PushPC([s EXCEPT !.regs.vip = 0, !.regs.ie = 0])
        s2 == [s1 EXCEPT !.regs.pc = s1.regs.viaddr]
    IN  IF s2.regs.vic # 0 THEN ContextStore(s2) ELSE s2

\* A faulty variant of InterruptStep: the vectored interrupt is tried first.
InterruptStepVectoredFirst(s) ==
    IF s.regs.ie # 0 /\ ~s.regs.rep
    THEN IF s.regs.vim # 0 /\ s.regs.vip # 0 THEN TakeVectoredInterrupt(s)
         ELSE IF Pending(s.regs) # {} THEN TakeInterrupt(s, Lowest(Pending(s.regs)))
         ELSE s
    ELSE s

\* A faulty variant of InterruptStep: interrupts are accepted during a rep.
InterruptStepInRep(s) ==
    IF s.regs.ie # 0
    THEN IF Pending(s.regs) # {} THEN TakeInterrupt(s, Lowest(Pending(s.regs)))
         ELSE IF s.regs.vim # 0 /\ s.regs.vip # 0 THEN TakeVectoredInterrupt(s)
         ELSE s
    ELSE s

\* if (regs.ie && !regs.rep) ...
InterruptStep(s) ==
    IF s.regs.ie # 0 /\ ~s.regs.rep
    THEN IF Pending(s.regs) # {} THEN TakeInterrupt(s, Lowest(Pending(s.regs)))
         ELSE IF s.regs.vim # 0 /\ s.regs.vip # 0 THEN TakeVectoredInterrupt(s)
         ELSE s
    ELSE s

\* The machine after the bookkeeping that precedes the handler.
Booked(s, dec) == LoopStep(RepStep(Fetch(s, dec)))

\* The machine after the handler (post) and at the end of the cycle (fin):
\* a throw leaves Run before the interrupt check.
Executed(s, dec, expand_value, u) == Call(Booked(s, dec), dec, expand_value, u)

\* A faulty variant of Finished: the interrupt check runs after a throw too.
Finished_after_throw(post) == InterruptStep(post)

Finished(post) == IF post.thrown # "none" THEN post ELSE InterruptStep(post)


(***************************************************************************)
(* History kept beside the machine, for stating the properties: obs is the *)
(* last cycle as it went, reptrk follows the instruction under the last    *)
(* rep, looptrk follows the block-repeat loop opened last, stk holds the   *)
(* entry of the interrupt taken last.                                      *)
(***************************************************************************)
NoRepTrk ==
    [on |-> FALSE, fresh |-> FALSE, k |-> 0, addr |-> 0, op |-> 0, ex |-> 0, n |-> 0,
     same |-> TRUE, back |-> FALSE, thrown |-> FALSE]

NextRepTrk(trk, pre, dec, addr, opcode, expand, post, loopkind) ==
    IF dec.name = "rep" /\ post.thrown = "none"
    THEN [NoRepTrk EXCEPT !.on = TRUE, !.fresh = ~pre.rep, !.k = dec.a, !.addr = post.regs.pc]
    ELSE IF trk.on /\ trk.n <= trk.k
    THEN [trk EXCEPT !.n = @ + 1,
                     !.op = IF trk.n = 0 THEN opcode ELSE @,
                     !.ex = IF trk.n = 0 THEN expand ELSE @,
                     !.same = @ /\ addr = trk.addr
                                /\ (trk.n = 0 \/ (opcode = trk.op /\ expand = trk.ex)),
                     !.back = @ \/ loopkind = "back",
                     !.thrown = post.thrown # "none"]
    ELSE NoRepTrk

NoLoopTrk ==
    [on |-> FALSE, done |-> FALSE, at |-> 0, start |-> 0, end |-> 0, k |-> 0, bcn0 |-> 0,
     lp0 |-> 0, count |-> <<>>, dirty |-> FALSE, hasrep |-> FALSE,
     straddle |-> FALSE, fell |-> FALSE, exitpc |-> 0, bcn1 |-> 0, lp1 |-> 0]

Leaves == {"break", "bkrepsto_memsp", "bkreprst_memsp", "bkrep", "brr", "mov_pc", "undefined"}

NextLoopTrk(trk, dec, addr, booked, post, fin, loopkind) ==
    IF dec.name = "bkrep" /\ post.thrown = "none" /\ ~(trk.on /\ ~trk.done)
    THEN [NoLoopTrk EXCEPT !.on = TRUE,
                           !.at = addr,
                           !.start = post.regs.bkrep_stack[booked.regs.bcn].start,
                           !.end = post.regs.bkrep_stack[booked.regs.bcn].end,
                           !.k = post.regs.bkrep_stack[booked.regs.bcn].lc,
                           !.bcn0 = booked.regs.bcn,
                           !.lp0 = booked.regs.lp]
    ELSE IF trk.on /\ ~trk.done
    THEN LET inbody == addr >= trk.start /\ addr <= trk.end
             popped == loopkind = "pop" /\ post.regs.bcn = trk.bcn0 /\ dec.name \notin Leaves
         IN  [trk EXCEPT
                !.count = IF inbody
                          THEN [a \in (DOMAIN trk.count) \cup {addr} |->
                                   IF a = addr
                                   THEN (IF a \in DOMAIN trk.count THEN trk.count[a] ELSE 0) + 1
                                   ELSE trk.count[a]]
                          ELSE @,
                !.dirty = @ \/ dec.name \in Leaves \/ post.thrown # "none"
                            \/ fin # post,
                !.hasrep = @ \/ dec.name = "rep",
                !.straddle = @ \/ (dec.need /\ addr = trk.end),
                !.done = popped \/ ~inbody,
                !.fell = ~inbody,
                !.exitpc = post.regs.pc,
                !.bcn1 = post.regs.bcn,
                !.lp1 = post.regs.lp]
    ELSE NoLoopTrk

\* What an interrupt taken at the end of a cycle leaves behind: the return
\* address and the stack pointer of the interrupted program, the two words
\* PushPC wrote, and whether ContextStore ran.
Entry(post, fin) ==
    [pc |-> post.regs.pc, sp |-> post.regs.sp,
     first |-> DataRead(fin.mem, fin.regs.sp),
     second |-> DataRead(fin.mem, U16(fin.regs.sp + 1)),
     stored |-> fin.regs.bank # post.regs.bank,
     a1 |-> post.regs.a1, b1 |-> post.regs.b1, handler |-> fin.regs.pc]

NoObs(r, m) ==
    LET s == [regs |-> r, mem |-> m, thrown |-> "none"]
    IN  [kind |-> "init", addr |-> 0, opcode |-> 0, expand |-> 0, name |-> "nop",
         loop |-> "none", pre |-> r, post |-> s, fin |-> s]

(***************************************************************************)
(* The actions.                                                            *)
(***************************************************************************)
\* One iteration of the loop of Run(cycles), ncycles being the iterations
\* left: the opcode and the expansion word are what
\* ProgramRead returns, u is the outcome of an out-of-bounds write.
RunCycle ==
    /\ fatal = "none"
    /\ ncycles > 0
    /\ \E opcode \in ProgramWords(pmem, alpha, regs.pc) :
         LET dec == Decode(opcode)
             pm1 == Bind(pmem, regs.pc, opcode)
             s == [regs |-> regs, mem |-> mem, thrown |-> "none"]
             booked == Booked(s, dec)
             ub == dec.name = "bkreprst_memsp" /\ CopyBackwardOutOfBounds(booked.regs)
             f == RepStep(Fetch(s, dec)).regs
             loopkind == IF LoopEnd(f)
                         THEN (IF f.bkrep_stack[f.bcn - 1].lc = 0 THEN "pop" ELSE "back")
                         ELSE "none"
         IN  \E expand \in (IF dec.need THEN ProgramWords(pm1, alpha, regs.pc + 1) ELSE {0}) :
             \E u \in (IF ub THEN UBOutcomes ELSE {"none"}) :
               LET post == Executed(s, dec, expand, u)
                   fin == Finished(post)
               IN  /\ regs' = fin.regs
                   /\ mem' = fin.mem
                   /\ pmem' = IF dec.need THEN Bind(pm1, regs.pc + 1, expand) ELSE pm1
                   /\ fatal' = IF ub THEN "undefined behaviour" ELSE fin.thrown
                   /\ ncycles' = ncycles - 1
                   /\ obs' = [kind |-> "cycle", addr |-> regs.pc, opcode |-> opcode,
                              expand |-> expand, name |-> dec.name, loop |-> loopkind,
                              pre |-> regs, post |-> post, fin |-> fin]
                   /\ reptrk' = NextRepTrk(reptrk, regs, dec, regs.pc, opcode, expand, post, loopkind)
                   /\ looptrk' = NextLoopTrk(looptrk, dec, regs.pc, booked, post, fin, loopkind)
                   /\ stk' = IF post.thrown = "none" /\ fin # post
                             THEN <<Entry(post, fin)>>
                             ELSE stk
                   /\ UNCHANGED alpha


\* Interpreter::SignalInterrupt(i), called while Run has cycles left.
SignalInterrupt ==
    /\ fatal = "none"
    /\ ncycles > 0
    /\ \E i \in 0..2 : regs' = [regs EXCEPT !.ip[i] = 1]
    /\ obs' = [obs EXCEPT !.kind = "signal"]
    /\ UNCHANGED <<mem, pmem, alpha, fatal, ncycles, reptrk, looptrk, stk>>

\* Interpreter::SignalVectoredInterrupt(address), called while Run has cycles left.
VectorAddresses == {64, 262208}

SignalVectoredInterrupt ==
    /\ fatal = "none"
    /\ ncycles > 0
    /\ \E address \in VectorAddresses : regs' = [regs EXCEPT !.viaddr = address, !.vip = 1]
    /\ obs' = [obs EXCEPT !.kind = "signal"]
    /\ UNCHANGED <<mem, pmem, alpha, fatal, ncycles, reptrk, looptrk, stk>>

(***************************************************************************)
(* The state after construction: every register is zero.                   *)
(***************************************************************************)
NoFrame == [start |-> 0, end |-> 0, lc |-> 0]

ResetRegs ==
    [pc |-> 0, sp |-> 0, rep |-> FALSE, repc |-> 0, lp |-> 0, bcn |-> 0,
     bkrep_stack |-> [i \in 0..3 |-> NoFrame],
     ie |-> 0, im |-> [i \in 0..2 |-> 0], ip |-> [i \in 0..2 |-> 0],
     ic |-> [i \in 0..2 |-> 0], vim |-> 0, vip |-> 0, vic |-> 0, viaddr |-> 0,
     r |-> [i \in 0..7 |-> 0], brv |-> [i \in 0..7 |-> 0], m |-> [i \in 0..7 |-> 0],
     modi |-> 0, modj |-> 0, stepi |-> 0, stepj |-> 0, stepi0 |-> 0, stepj0 |-> 0,
     bankstep |-> 0, legacy_mod |-> 0, r3z |-> 0, r7z |-> 0,
     arrn |-> [i \in 0..3 |-> 0], arstep |-> [i \in 0..3 |-> 0],
     aroffset |-> [i \in 0..3 |-> 0], p |-> [i \in 0..1 |-> <<0, 0>>],
     x |-> [i \in 0..1 |-> 0], y |-> [i \in 0..1 |-> 0], psign |-> [i \in 0..1 |-> 0],
     ps |-> [i \in 0..1 |-> 0], ym |-> 0, fr |-> 0, page |-> 0,
     a0 |-> Zero64, a1 |-> Zero64, b0 |-> Zero64, b1 |-> Zero64,
     sv |-> 0, s |-> 0, sar |-> [i \in 0..1 |-> 0],
     fc0 |-> 0, fc1 |-> 0, fv |-> 0, flv |-> 0, fls |-> 0, fz |-> 0, fm |-> 0, fe |-> 0, fn |-> 0,
     shadow |-> [fz |-> 0, fm |-> 0, fe |-> 0, fn |-> 0], bank |-> 0, pc_endian |-> 0]

\* The program memory holding the words of prog from address base on.
Load(base, prog) == [a \in base..(base + Len(prog) - 1) |-> prog[a - base + 1]]

RECURSIVE Flatten(_)
Flatten(ss) == IF ss = <<>> THEN <<>> ELSE Head(ss) \o Flatten(Tail(ss))

\* The machine starts at pc with the program prog loaded at pc and every
\* other program word one of al; Run is called for n cycles.
Start(r, prog, al, n) ==
    /\ regs = r
    /\ mem = <<>>
    /\ pmem = Load(r.pc, prog)
    /\ alpha = al
    /\ fatal = "none"
    /\ ncycles = n
    /\ obs = NoObs(r, <<>>)
    /\ reptrk = NoRepTrk
    /\ looptrk = NoLoopTrk
    /\ stk = <<>>

(***************************************************************************)
(* Control flow: straight-line programs of three instructions, alone or as *)
(* the body of a bkrep, and programs at the top of the program space.      *)
(***************************************************************************)
Counts == 0..MaxCount

FlowInstr ==
    {<<Encode("nop", 0, 0)>>, <<Encode("break", 0, 0)>>, <<Encode("mov_r6", 0, 0), 0>>,
     <<Encode("rep", 3, 0)>>}
    \cup {<<Encode("rep", c, 0)>> : c \in Counts}

FlowPrefix == {<<>>} \cup {<<Encode("bkrep", c, 0), e>> : c \in Counts, e \in 2..4}

FlowPrograms ==
    {p \o Flatten(<<i1, i2, i3>>) : p \in FlowPrefix, i1 \in FlowInstr, i2 \in FlowInstr, i3 \in FlowInstr}

TopOfSpace == 262144 - 2

EdgeInstr ==
    {<<Encode("nop", 0, 0)>>, <<Encode("brr", 1, 0)>>, <<Encode("mov_pc", 0, 0)>>,
     <<Encode("rep", 1, 0)>>}

EdgePrograms == {i1 \o i2 : i1 \in EdgeInstr, i2 \in EdgeInstr}

InitFlow ==
    \/ \E prog \in FlowPrograms : Start(ResetRegs, prog, {0}, MaxCycles)
    \/ \E prog \in EdgePrograms, a \in {FromInt(5), FromInt(262144)} :
          Start([ResetRegs EXCEPT !.pc = TopOfSpace, !.a1 = a], prog, {0}, MaxCycles)

NextFlow == RunCycle

SpecFlow == InitFlow /\ [][NextFlow]_vars


(***************************************************************************)
(* Properties of the repeat mechanisms (SpecFlow).                         *)
(***************************************************************************)
\* The program word at address a (a word never fetched is the filler).
WordAt(a) == IF a \in DOMAIN pmem THEN pmem[a] ELSE CHOOSE w \in alpha : TRUE

InstLen(a) == IF Decode(WordAt(a)).need THEN 2 ELSE 1

\* One-word instructions that write none of repc, rep, pc.
CleanOneWord == {"nop", "break", "eint", "dint", "bkrepsto_memsp", "bkreprst_memsp"}

\* The instruction under a rep has been executed reptrk.n times (n >= 1), it
\* is one word long and clean, and no execution threw.
RepCase ==
    /\ obs.kind = "cycle"
    /\ reptrk.on
    /\ reptrk.n >= 1
    /\ ~reptrk.thrown
    /\ Decode(reptrk.op).name \in CleanOneWord

RepRuns ==
    /\ reptrk.same
    /\ reptrk.n <= reptrk.k => obs.post.regs.rep
    /\ reptrk.n = reptrk.k + 1 =>
          (~obs.post.regs.rep /\ obs.post.regs.pc = reptrk.addr + 1)

\* C2 as stated: after rep k the following one-word instruction is executed
\* k+1 times on consecutive cycles, from the same address with the same
\* opcode, and after the last execution rep = false and pc is the address
\* following it.
C2_RepeatAsStated == RepCase => RepRuns

\* C2, amended: the same, provided the loop-end bookkeeping of Run takes no
\* block-repeat loop back (pc := start) during those cycles.
C2_Repeat == (RepCase /\ ~reptrk.back) => RepRuns

C2_Witness ==
    /\ RepCase
    /\ ~reptrk.back
    /\ reptrk.k = 2
    /\ reptrk.n = 3
    /\ obs.pre.lp = 1

\* C7: with rep = false, rep 3 at P followed by a two-word instruction at
\* P+1, P+2 gives rep = true and repc = 3, the instruction is then executed
\* four times with the same opcode and expansion word, and after the fourth
\* rep = false and pc = P+3.
TwoWordUnderRep ==
    /\ obs.kind = "cycle"
    /\ reptrk.on
    /\ reptrk.fresh
    /\ reptrk.k = 3
    /\ ~reptrk.back
    /\ Decode(WordAt(reptrk.addr)).need

C7_RepeatTwoWord ==
    TwoWordUnderRep =>
        /\ reptrk.n = 0 => (regs.rep /\ regs.repc = 3)
        /\ reptrk.same
        /\ ~reptrk.thrown
        /\ reptrk.n = 4 => (~obs.post.regs.rep /\ obs.post.regs.pc = reptrk.addr + 2)

\* C6: pc < 2^18 in every state observed after an instruction cycle.
C6_PcInRange == obs.kind = "cycle" => (regs.pc >= 0 /\ regs.pc < 262144)

(***************************************************************************)
(* Block repeat.                                                           *)
(***************************************************************************)
\* The addresses of the instructions of the body start..end.
RECURSIVE Body(_, _)
Body(a, end) == IF a > end THEN {} ELSE {a} \cup Body(a + InstLen(a), end)

BodyNames == {Decode(WordAt(a)).name : a \in Body(looptrk.start, looptrk.end)}

\* The loop opened by the last bkrep is over; its body contains no break,
\* bkrepsto/bkreprst, bkrep or branch, and no cycle threw or took an interrupt.
LoopCase ==
    /\ looptrk.on
    /\ looptrk.done
    /\ looptrk.start = looptrk.at + 2
    /\ looptrk.start <= looptrk.end
    /\ ~looptrk.dirty
    /\ BodyNames \cap Leaves = {}

LoopRuns ==
    /\ DOMAIN looptrk.count = Body(looptrk.start, looptrk.end)
    /\ \A a \in DOMAIN looptrk.count : looptrk.count[a] = looptrk.k + 1
    /\ looptrk.exitpc = looptrk.end + 1
    /\ looptrk.bcn1 = looptrk.bcn0
    /\ looptrk.lp1 = looptrk.lp0

\* C3 as stated: every body instruction is executed k+1 times; on exit
\* pc = end+1 and bcn, lp are as before the bkrep.
C3_BlockRepeatAsStated == LoopCase => LoopRuns

\* The last body instruction ends at end.
BodyFits == \E a \in Body(looptrk.start, looptrk.end) : a + InstLen(a) = looptrk.end + 1

\* C3, amended: the same, provided the body contains no rep and its last
\* instruction ends exactly at end.
C3_BlockRepeat == (LoopCase /\ "rep" \notin BodyNames /\ BodyFits) => LoopRuns

C3_Witness ==
    /\ LoopCase
    /\ "rep" \notin BodyNames
    /\ BodyFits
    /\ looptrk.k = 1
    /\ "mov_r6" \in BodyNames
    /\ looptrk.end = looptrk.start + 2


(***************************************************************************)
(* Interrupts: short programs run under every configuration of the mask    *)
(* and context bits, with interrupts signalled between the cycles.         *)
(***************************************************************************)
Bits3(a, b, c) == [i \in 0..2 |-> IF i = 0 THEN a ELSE IF i = 1 THEN b ELSE c]

Masks == {Bits3(0, 0, 0), Bits3(1, 0, 0), Bits3(0, 1, 1), Bits3(1, 1, 1)}

IntInstr == {<<Encode("nop", 0, 0)>>, <<Encode("rep", 1, 0)>>, <<Encode("dint", 0, 0)>>}

IntPrograms == {<<Encode("eint", 0, 0)>> \o i1 : i1 \in IntInstr}

InitInt ==
    \E prog \in IntPrograms, im \in Masks, c \in {0, 1}, vim \in {0, 1}, vic \in {0, 1},
       e \in {0, 1} :
        Start([ResetRegs EXCEPT !.im = im, !.ic = Bits3(c, c, c), !.vim = vim, !.vic = vic,
                                !.pc_endian = e, !.a1 = FromInt(1), !.b1 = FromInt(-2)],
              prog, {0}, IntCycles)

NextInt == RunCycle \/ SignalInterrupt \/ SignalVectoredInterrupt

SpecInt == InitInt /\ [][NextInt]_vars

\* The machine as the instruction of the last cycle left it.
Post == obs.post.regs

Deliverable(i) == Post.im[i] = 1 /\ Post.ip[i] = 1

\* The words PushPC writes for the pc the instruction left.
PcPushed ==
    /\ regs.sp = U16(Post.sp - 2)
    /\ LET l == Post.pc % 65536
           h == (Post.pc \div 65536) % 4
       IN  IF Post.pc_endian = 1
           THEN mem[U16(Post.sp - 1)] = h /\ mem[U16(Post.sp - 2)] = l
           ELSE mem[U16(Post.sp - 1)] = l /\ mem[U16(Post.sp - 2)] = h

ContextStored == regs.bank # Post.bank

NothingTaken ==
    /\ regs.ip = Post.ip
    /\ regs.vip = Post.vip
    /\ regs.ie = Post.ie
    /\ regs.pc = Post.pc
    /\ regs.sp = Post.sp
    /\ mem = obs.post.mem
    /\ ~ContextStored

\* C1: at the end of a cycle after whose instruction ie = 1, rep = false and
\* some interrupt i has im[i] = ip[i] = 1, the lowest such i is taken: ip[i]
\* becomes 0 and the other ip bits stay, ie becomes 0, the address of the next
\* instruction is pushed, and pc = 0x0006 + 8*i.
C1_InterruptAccepted ==
    \A i \in 0..2 :
        (/\ obs.kind = "cycle"
         /\ obs.post.thrown = "none"
         /\ Post.ie = 1
         /\ ~Post.rep
         /\ Deliverable(i)
         /\ \A j \in 0..2 : j < i => ~Deliverable(j))
        => (/\ regs.ip = [Post.ip EXCEPT ![i] = 0]
            /\ regs.ie = 0
            /\ PcPushed
            /\ regs.pc = 6 + 8 * i)

C1_Witness ==
    /\ obs.kind = "cycle"
    /\ Post.ie = 1
    /\ ~Post.rep
    /\ ~Deliverable(0)
    /\ Deliverable(1)
    /\ Deliverable(2)
    /\ regs.pc = 14
    /\ Post.pc = 2
    /\ Post.pc_endian = 1

VectoredDeliverable ==
    /\ Post.ie = 1
    /\ ~Post.rep
    /\ Post.vim = 1
    /\ Post.vip = 1
    /\ \A i \in 0..2 : ~Deliverable(i)

\* C8: a vectored interrupt is taken (vip and ie cleared, pc pushed,
\* pc = viaddr, ContextStore iff vic) exactly at the end of a cycle with
\* ie = 1, rep = false, vim = 1, vip = 1 and no regular interrupt
\* deliverable; when a regular one is deliverable too, that one is taken
\* and vip stays 1.
C8_VectoredLoses ==
    (obs.kind = "cycle" /\ obs.post.thrown = "none") =>
        /\ VectoredDeliverable =>
              (/\ regs.vip = 0
               /\ regs.ie = 0
               /\ PcPushed
               /\ regs.pc = Post.viaddr
               /\ regs.ip = Post.ip
               /\ ContextStored <=> Post.vic = 1)
        /\ ~VectoredDeliverable => regs.vip = Post.vip
        /\ (Post.ie = 1 /\ ~Post.rep /\ Post.vim = 1 /\ Post.vip = 1
              /\ \E i \in 0..2 : Deliverable(i))
           => (regs.vip = 1 /\ regs.pc \in {6, 14, 22} /\ regs.ip # Post.ip)

C8_Witness ==
    /\ obs.kind = "cycle"
    /\ Post.ie = 1
    /\ ~Post.rep
    /\ Post.vim = 1
    /\ Post.vip = 1
    /\ Deliverable(2)
    /\ regs.vip = 1
    /\ regs.pc = 22

\* C9: no interrupt is taken at the end of a cycle after whose instruction
\* ie = 0 or rep = true, hence none from a rep up to the last iteration of
\* the repeated instruction, and a cycle takes at most one interrupt.
C9_NoInterrupt ==
    obs.kind = "cycle" =>
        /\ (Post.ie = 0 \/ Post.rep) => NothingTaken
        /\ (reptrk.on /\ reptrk.n <= reptrk.k) => NothingTaken
        /\ Cardinality({i \in 0..2 : Post.ip[i] = 1 /\ regs.ip[i] = 0})
             + (IF Post.vip = 1 /\ regs.vip = 0 THEN 1 ELSE 0) <= 1

C9_Witness ==
    /\ obs.kind = "cycle"
    /\ reptrk.on
    /\ reptrk.n = 1
    /\ reptrk.k = 1
    /\ Post.rep
    /\ Post.ie = 1
    /\ Deliverable(0)
    /\ Post.vim = 1
    /\ Post.vip = 1


(***************************************************************************)
(* The block-repeat stack: programs of four instructions among bkrep,      *)
(* break, bkrepsto [sp], bkreprst [sp] and nop.                            *)
(***************************************************************************)
LoopEnds == {5, 100}

LoopInstr ==
    {<<Encode("nop", 0, 0)>>, <<Encode("break", 0, 0)>>,
     <<Encode("bkrepsto_memsp", 0, 0)>>, <<Encode("bkreprst_memsp", 0, 0)>>}
    \cup {<<Encode("bkrep", c, 0), e>> : c \in Counts, e \in LoopEnds}

LoopPrograms ==
    {Flatten(<<i1, i2, i3, i4>>) :
        i1 \in LoopInstr, i2 \in LoopInstr, i3 \in LoopInstr, i4 \in LoopInstr}

InitLoop == \E prog \in LoopPrograms : Start(ResetRegs, prog, {0}, MaxCycles)

NextLoop == RunCycle

SpecLoop == InitLoop /\ [][NextLoop]_vars

\* C4: every reached state has bcn in 0..4 and lp <=> bcn > 0.
C4_LoopStack == regs.bcn \in 0..4 /\ (regs.lp # 0 <=> regs.bcn > 0)

\* The registers as the handler of the last cycle found them, that is after
\* the bookkeeping of the cycle.
Handled ==
    Booked([regs |-> obs.pre, mem |-> obs.post.mem, thrown |-> "none"],
           Decode(obs.opcode)).regs

Pushed == obs.kind = "cycle" /\ obs.name = "bkrep" /\ obs.post.thrown = "none"

Broke == obs.kind = "cycle" /\ obs.name = "break" /\ obs.post.thrown = "none"

\* The registers the loop-end bookkeeping of the last cycle looked at.
Fetched ==
    RepStep(Fetch([regs |-> obs.pre, mem |-> obs.post.mem, thrown |-> "none"],
                  Decode(obs.opcode))).regs

\* C20: frame 0 is the innermost loop.  A bkrep push moves every live frame
\* one slot up (frame i to slot i + 1) and installs the new frame in slot 0;
\* the loop-end bookkeeping acts when pc has passed the end of frame 0; the
\* frame break discards is frame 0, the outer frames staying below it.
C20_FrameZeroInnermost ==
    /\ Pushed =>
          /\ obs.post.regs.bkrep_stack[0] =
                [start |-> Handled.pc, end |-> obs.post.regs.bkrep_stack[0].end,
                 lc |-> Decode(obs.opcode).a]
          /\ obs.post.regs.bkrep_stack[0].end % 65536 = obs.expand
          /\ \A i \in 0..2 : i < Handled.bcn =>
                obs.post.regs.bkrep_stack[i + 1] = Handled.bkrep_stack[i]
    /\ (obs.kind = "cycle" /\ obs.loop # "none") =>
          Fetched.bkrep_stack[0].end + 1 = Fetched.pc
    /\ Broke =>
          \A i \in 0..2 : i < obs.post.regs.bcn =>
                obs.post.regs.bkrep_stack[i] = Handled.bkrep_stack[i + 1]


(***************************************************************************)
(* The PC stack: PushPC and PopPC called as call and ret call them, with   *)
(* branches in between; stk holds the registers as they were before each   *)
(* PushPC still to be undone.                                              *)
(***************************************************************************)
PcSamples == {0, 1, 6, 65535, 65536, 131073, 196607, 262143}

SpSamples == {0, 1, 2, 3, 32768, 65535}

InitPC ==
    /\ \E pc \in PcSamples, sp \in SpSamples, e \in {0, 1} :
          /\ regs = [ResetRegs EXCEPT !.pc = pc, !.sp = sp, !.pc_endian = e]
          /\ obs = NoObs(regs, <<>>)
    /\ mem = <<>>
    /\ pmem = <<>>
    /\ alpha = {0}
    /\ fatal = "none"
    /\ ncycles = 0
    /\ reptrk = NoRepTrk
    /\ looptrk = NoLoopTrk
    /\ stk = <<>>

PushPCStep ==
    /\ Len(stk) < MaxDepth
    /\ LET s == PushPC([regs |-> regs, mem |-> mem, thrown |-> "none"])
       IN  /\ regs' = s.regs
           /\ mem' = s.mem
    /\ stk' = <<regs>> \o stk
    /\ obs' = [obs EXCEPT !.kind = "pushed"]
    /\ UNCHANGED <<pmem, alpha, fatal, ncycles, reptrk, looptrk>>

PopPCStep ==
    /\ Len(stk) > 0
    /\ LET s == PopPC([regs |-> regs, mem |-> mem, thrown |-> "none"])
       IN  /\ regs' = s.regs
           /\ mem' = s.mem
    /\ stk' = Tail(stk)
    /\ obs' = [obs EXCEPT !.kind = "popped", !.pre = Head(stk)]
    /\ UNCHANGED <<pmem, alpha, fatal, ncycles, reptrk, looptrk>>

\* br between a PushPC and its PopPC, as in a call.
BrStep ==
    /\ obs.kind = "pushed"
    /\ \E addr_low \in {0, 65535}, addr_high \in {0, 3} :
         LET s == br([regs |-> regs, mem |-> mem, thrown |-> "none"], addr_low, addr_high, 0)
         IN  /\ regs' = s.regs
             /\ mem' = s.mem
    /\ obs' = [obs EXCEPT !.kind = "branched"]
    /\ UNCHANGED <<pmem, alpha, fatal, ncycles, reptrk, looptrk, stk>>

NextPC == PushPCStep \/ PopPCStep \/ BrStep

SpecPC == InitPC /\ [][NextPC]_vars

\* C10: for either pc_endian, every pc < 2^18 and every sp, PushPC followed
\* by PopPC leaves pc and sp as they were before the PushPC.
C10_PushPopRoundTrip ==
    obs.kind = "popped" => (regs.pc = obs.pre.pc /\ regs.sp = obs.pre.sp)

C10_Witness ==
    /\ obs.kind = "popped"
    /\ obs.pre.pc = 196607
    /\ obs.pre.sp = 1
    /\ obs.pre.pc_endian = 1
    /\ regs.pc = 196607
    /\ regs.sp = 1
    /\ 65535 \in DOMAIN mem


(***************************************************************************)
(* The accumulators: AccSteps accumulator instructions run from a state    *)
(* whose accumulators are sign extended from 40 bits.                      *)
(***************************************************************************)
Accs == {"a0", "a1", "b0", "b1"}

\* 0, -1, the largest and the smallest 40-bit value, and 0x8000'0000.
AccSamples ==
    {Zero64, FromInt(-1), <<65535, 65535, 127, 0>>, <<0, 0, 65408, 65535>>, <<0, 32768, 0, 0>>}

WordSamples == {1, 32768, 65535}

\* The shift value sv (8 and 40 to the left, 1 and 40 to the right) with the
\* mode bits s and sar[1].
ShiftModes ==
    {[sv |-> 8, s |-> 0, sar1 |-> 0], [sv |-> 40, s |-> 0, sar1 |-> 1],
     [sv |-> 65535, s |-> 0, sar1 |-> 0], [sv |-> 65496, s |-> 1, sar1 |-> 0],
     [sv |-> 8, s |-> 1, sar1 |-> 1], [sv |-> 65496, s |-> 0, sar1 |-> 1]}

InitAcc ==
    /\ \E a \in AccSamples, md \in ShiftModes :
          /\ regs = [ResetRegs EXCEPT !.a0 = a, !.a1 = FromInt(1), !.b0 = FromInt(-2),
                                      !.b1 = <<0, 0, 64, 0>>, !.sv = md.sv, !.s = md.s,
                                      !.sar = [i \in 0..1 |-> IF i = 1 THEN md.sar1 ELSE 0]]
          /\ obs = NoObs(regs, <<>>)
    /\ mem = (0 :> 128)
    /\ pmem = <<>>
    /\ alpha = {0}
    /\ fatal = "none"
    /\ ncycles = AccSteps
    /\ reptrk = NoRepTrk
    /\ looptrk = NoLoopTrk
    /\ stk = <<>>

Now == [regs |-> regs, mem |-> mem, thrown |-> "none"]

\* The cycle of an accumulator instruction whose handler leaves post.
AccExec(name, post) ==
    /\ fatal = "none"
    /\ ncycles > 0
    /\ regs' = post.regs
    /\ mem' = post.mem
    /\ fatal' = post.thrown
    /\ ncycles' = ncycles - 1
    /\ obs' = [obs EXCEPT !.kind = "cycle", !.name = name]
    /\ UNCHANGED <<pmem, alpha, reptrk, looptrk, stk>>

AluStep ==
    \E op \in {"Add", "Subh"}, a \in WordSamples, b \in {"a0", "a1"} :
        AccExec("alu", alu(Now, op, a, b))

ShfcStep == \E a \in {"a0", "b1"}, b \in {"a0"} : AccExec("shfc", shfc(Now, a, b, 0))

AlbStep ==
    \E op \in {"Set", "Addv"}, a \in {32768, 65535}, acc \in {"a0", "b1"}, half \in {1, 2} :
        AccExec("alb", alb(Now, op, a, acc, half))

AddAddStep ==
    \E di \in {32767, 32768}, dj \in {32767, 32768}, oi \in {65535}, oj \in {1},
       b \in {"a0", "b0"} :
        AccExec("add_add", add_add(Now, di, dj, oi, oj, b))

MaxGeStep == \E a \in {"a0", "a1"} : AccExec("max_ge", max_ge(Now, a))

\* max2_vtr(Ax a) and min2_vtr(Ax a)
Max2VtrStep ==
    \E a \in {"a0", "a1"}, min \in BOOLEAN :
        AccExec("max2_vtr", MinMaxVtr(Now, a, CounterAcc(a), min))

PopAbeStep == \E a \in {"a0", "b1"} : AccExec("pop", pop(Now, a))

MovStep == \E a \in {"a0", "b1"}, b \in {"a1", "b0"} : AccExec("mov", mov(Now, a, b))

\* cntx_s and cntx_r
CntxSStep == AccExec("cntx_s", ContextStore(Now))

CntxRStep == AccExec("cntx_r", ContextRestore(Now))

NextAcc ==
    \/ AluStep
    \/ ShfcStep
    \/ AlbStep
    \/ AddAddStep
    \/ MaxGeStep
    \/ Max2VtrStep
    \/ PopAbeStep
    \/ MovStep
    \/ CntxSStep
    \/ CntxRStep

SpecAcc == InitAcc /\ [][NextAcc]_vars

\* Bits 40..63 of v are copies of bit 39.
Extended40(v) ==
    LET sign == (v[3] \div 128) % 2
    IN  v[3] \div 128 = 511 * sign /\ v[4] = 65535 * sign

\* C5: after every instruction cycle each of a0, a1, b0, b1 is the sign
\* extension of its low 40 bits.
C5_Accumulators == \A n \in Accs : Extended40(regs[n])

C5_Witness ==
    /\ obs.kind = "cycle"
    /\ obs.name = "pop"
    /\ ncycles = 0
    /\ fatal = "none"
    /\ regs.a0[3] = 65408
    /\ regs.a0[4] = 65535
    /\ regs.b0[3] >= 32768


(***************************************************************************)
(* Interrupt return: a program that enables interrupts, interrupts that    *)
(* arrive while it runs, and handlers made of nop, ret, reti and retic.    *)
(***************************************************************************)
RetCycles == 4

RetWords ==
    {Encode("nop", 0, 0), Encode("reti", 0, 0), Encode("reti", 0, 1), Encode("ret", 0, 1),
     Encode("retic", 0, 1)}

InitRet ==
    \E c \in {0, 1}, z \in {0, 1}, e \in {0, 1} :
        Start([ResetRegs EXCEPT !.im = Bits3(1, 1, 1), !.ic = Bits3(c, c, c), !.fz = z,
                                !.pc_endian = e, !.sp = 1],
              <<Encode("eint", 0, 0), Encode("nop", 0, 0)>>, RetWords, RetCycles)

NextRet == RunCycle \/ SignalInterrupt

SpecRet == InitRet /\ [][NextRet]_vars

\* The registers the return instruction of the last cycle found.
AtReturn ==
    Booked([regs |-> obs.pre, mem |-> obs.post.mem, thrown |-> "none"], Decode(obs.opcode)).regs

Returns == obs.kind = "cycle" /\ obs.name \in {"ret", "reti", "retic"}

\* The handler of the interrupt taken last left sp and the pushed words.
HandlerKeptStack ==
    /\ stk # <<>>
    /\ ~stk[1].stored
    /\ AtReturn.sp = U16(stk[1].sp - 2)
    /\ DataRead(obs.post.mem, AtReturn.sp) = stk[1].first
    /\ DataRead(obs.post.mem, U16(AtReturn.sp + 1)) = stk[1].second

\* C11: a reti whose condition holds, run by a handler that left sp and the
\* two pushed words of an interrupt taken without context store, sets pc and
\* sp to what they were when the interrupt was taken and ie to 1; ret, reti
\* and retic whose condition fails change none of pc, sp and ie.
C11_InterruptReturn ==
    Returns =>
        /\ (obs.name = "reti" /\ ConditionPass(AtReturn, Decode(obs.opcode).c)
               /\ HandlerKeptStack)
           => (Post.pc = stk[1].pc /\ Post.sp = stk[1].sp /\ Post.ie = 1)
        /\ ~ConditionPass(AtReturn, Decode(obs.opcode).c)
           => (Post.pc = AtReturn.pc /\ Post.sp = AtReturn.sp /\ Post.ie = AtReturn.ie)

C11_Witness ==
    /\ Returns
    /\ obs.name = "reti"
    /\ Decode(obs.opcode).c = 1
    /\ ConditionPass(AtReturn, 1)
    /\ HandlerKeptStack
    /\ obs.addr = 15
    /\ obs.pre.ie = 0
    /\ Post.pc = 2
    /\ Post.sp = 1
    /\ Post.ie = 1


(***************************************************************************)
(* The accumulator helpers called on their own: FnSteps calls in a row,    *)
(* obs.pre holding the registers before the last call and stk its          *)
(* arguments and the value it returned.                                    *)
(***************************************************************************)
FnSteps == 2

\* 40-bit values, sign extended: 0, 1, -1, the ends of the signed 32-bit
\* range and their neighbours, 0x4000'0000, 0xFFFF'FFFF, -16 and the ends
\* of the 40-bit range.
FnValues ==
    {Zero64, FromInt(1), FromInt(-1), Max32, <<0, 32768, 0, 0>>, Min32,
     <<65535, 32767, 65535, 65535>>, <<0, 16384, 0, 0>>, <<65535, 65535, 0, 0>>,
     FromInt(-16), <<65535, 65535, 127, 0>>, <<0, 0, 65408, 65535>>}

\* A value that is not the sign extension of its low 40 bits.
Unextended == <<0, 0, 256, 0>>

FnStart(r) ==
    /\ regs = r
    /\ mem = <<>>
    /\ pmem = <<>>
    /\ alpha = {0}
    /\ fatal = "none"
    /\ ncycles = FnSteps
    /\ obs = NoObs(r, <<>>)
    /\ reptrk = NoRepTrk
    /\ looptrk = NoLoopTrk
    /\ stk = <<>>

\* A call of the helper name with the arguments of rec that leaves post.
FnExec(name, rec, post) ==
    /\ fatal = "none"
    /\ ncycles > 0
    /\ regs' = post.regs
    /\ mem' = post.mem
    /\ fatal' = post.thrown
    /\ ncycles' = ncycles - 1
    /\ obs' = [obs EXCEPT !.kind = "call", !.name = name, !.pre = regs]
    /\ stk' = <<rec>>
    /\ UNCHANGED <<pmem, alpha, reptrk, looptrk>>

InitFlag ==
    \E sar \in {<<0, 0>>, <<0, 1>>, <<1, 0>>} :
        FnStart([ResetRegs EXCEPT !.sar = [i \in 0..1 |-> sar[i + 1]]])

SetAccCall ==
    \E v \in FnValues \cup {Unextended}, no_saturation \in BOOLEAN :
        FnExec("SetAcc", [x |-> v, out |-> v, storing |-> 1],
               SetAcc(Now, "a0", v, no_saturation))

SetAccFlagCall ==
    \E v \in FnValues \cup {Unextended} :
        FnExec("SetAccFlag", [x |-> v, out |-> v, storing |-> 1], SetAccFlag(Now, v))

SaturateAccCall ==
    \E v \in FnValues, storing \in {0, 1} :
        LET r == SaturateAcc(Now, v, storing)
        IN  FnExec("SaturateAcc", [x |-> v, out |-> r.v, storing |-> storing], r.m)

NextFlag == SetAccCall \/ SetAccFlagCall \/ SaturateAccCall

SpecFlag == InitFlag /\ [][NextFlag]_vars

Called(name) == obs.kind = "call" /\ obs.name = name /\ fatal = "none"

\* v fits in 32 bits signed: bits 32..63 are copies of bit 31.
Fits32(v) ==
    LET sign == v[2] \div 32768
    IN  v[3] = 65535 * sign /\ v[4] = 65535 * sign

Bit39(v) == (v[3] \div 128) % 2

Truth(b) == IF b THEN 1 ELSE 0

\* C12: after SetAcc or SetAccFlag with a 40-bit value v, Z = (v = 0),
\* M = bit 39 of v, E = (v does not fit in 32 bits) and
\* N = Z or (not E and bit 31 of v differs from bit 30).
C12_AccFlags ==
    (Called("SetAcc") \/ Called("SetAccFlag")) =>
        LET v == stk[1].x
        IN  /\ regs.fz = Truth(v = Zero64)
            /\ regs.fm = Bit39(v)
            /\ regs.fe = Truth(~Fits32(v))
            /\ regs.fn = Truth(v = Zero64
                                \/ (Fits32(v) /\ (v[2] \div 32768) # ((v[2] \div 16384) % 2)))

C12_Witness ==
    /\ Called("SetAcc")
    /\ stk[1].x = <<0, 32768, 0, 0>>
    /\ regs.fe = 1
    /\ regs.fn = 0
    /\ regs.fm = 0
    /\ obs.pre.fn = 1

\* C13: SaturateAcc(v, s) returns v and leaves fls alone when v fits in 32
\* bits or sar[s] is set; otherwise it returns 0x7FFF'FFFF when bit 39 of v
\* is 0 and 0xFFFF'FFFF'8000'0000 when it is 1, and sets fls; it never
\* clears fls.
C13_Saturation ==
    Called("SaturateAcc") =>
        LET v == stk[1].x
        IN  /\ (Fits32(v) \/ obs.pre.sar[stk[1].storing] # 0)
               => (stk[1].out = v /\ regs.fls = obs.pre.fls)
            /\ (~Fits32(v) /\ obs.pre.sar[stk[1].storing] = 0)
               => (/\ stk[1].out = (IF Bit39(v) = 0 THEN Max32 ELSE Min32)
                   /\ regs.fls = 1)
            /\ obs.pre.fls = 1 => regs.fls = 1

C13_Witness ==
    /\ Called("SaturateAcc")
    /\ stk[1].x = <<65535, 32767, 65535, 65535>>
    /\ stk[1].storing = 0
    /\ obs.pre.sar[0] = 0
    /\ obs.pre.sar[1] = 1
    /\ obs.pre.fls = 0
    /\ stk[1].out = Min32
    /\ regs.fls = 1


(***************************************************************************)
(* AddSub called on its own and through alu (add / sub of an immediate to  *)
(* a0), FnSteps calls in a row.                                            *)
(***************************************************************************)
AddSubValues ==
    {Zero64, FromInt(-1), Max32, Min32, <<65535, 65535, 0, 0>>, <<0, 32768, 0, 0>>,
     <<65535, 65535, 127, 0>>, <<0, 0, 65408, 65535>>}

AddSubOperands == {FromInt(1), FromInt(-1), <<65535, 65535, 127, 0>>, <<0, 0, 65408, 65535>>}

InitAddSub ==
    \E sar1 \in {0, 1} :
        FnStart([ResetRegs EXCEPT !.a0 = Max32,
                                  !.sar = [i \in 0..1 |-> IF i = 1 THEN sar1 ELSE 0]])

\* The value the last call returned, when that call was AddSub.
LastSum == IF obs.kind = "call" /\ obs.name = "AddSub" THEN {stk[1].out} ELSE {}

\* rec.undoes holds the first operand of the addition that this call
\* subtracts the second operand from again, if it is such a call.
AddSubCall ==
    \E a \in AddSubValues \cup LastSum, b \in AddSubOperands, sub \in BOOLEAN :
        LET r == AddSub(Now, a, b, sub)
            undoes == IF LastSum = {a} /\ ~stk[1].sub /\ sub /\ stk[1].y = b
                      THEN <<stk[1].x>> ELSE <<>>
        IN  FnExec("AddSub", [x |-> a, y |-> b, sub |-> sub, out |-> r.v, undoes |-> undoes],
                   r.m)

\* add #imm, a0 and sub #imm, a0
AluCall ==
    \E op \in {"Add", "Sub"}, a \in {1, 65535} :
        FnExec("alu", [op |-> op, a |-> a], alu(Now, op, a, "a0"))

NextAddSub == AddSubCall \/ AluCall

SpecAddSub == InitAddSub /\ [][NextAddSub]_vars

\* C14: for 40-bit sign-extended a and b,
\* AddSub(AddSub(a, b, false), b, true) = a.
C14_AddSubRoundTrip ==
    (Called("AddSub") /\ stk[1].undoes # <<>>) => stk[1].out = stk[1].undoes[1]

C14_Witness ==
    /\ Called("AddSub")
    /\ stk[1].undoes = <<(<<65535, 65535, 127, 0>>)>>
    /\ stk[1].y = <<65535, 65535, 127, 0>>
    /\ stk[1].x = FromInt(-2)
    /\ stk[1].out = <<65535, 65535, 127, 0>>

AddSubBasic ==
    /\ Called("AddSub")
    /\ stk[1].x = <<65535, 65535, 0, 0>>
    /\ stk[1].y = FromInt(1)
    /\ ~stk[1].sub

\* C15 as stated: AddSub(0x00'FFFF'FFFF, 1, false) returns 0x01'0000'0000
\* with C = 1 and V = 0.
C15_AddSubBasicAsStated ==
    AddSubBasic => (stk[1].out = <<0, 0, 1, 0>> /\ regs.fc0 = 1 /\ regs.fv = 0)

\* C15: AddSub(0x00'FFFF'FFFF, 1, false) returns 0x01'0000'0000 with C = 0
\* (bit 40 of the sum) and V = 0, and leaves LV as it was.
C15_AddSubBasic ==
    AddSubBasic =>
        /\ stk[1].out = <<0, 0, 1, 0>>
        /\ regs.fc0 = 0
        /\ regs.fv = 0
        /\ regs.flv = obs.pre.flv

C15_Witness ==
    /\ AddSubBasic
    /\ stk[1].out = <<0, 0, 1, 0>>
    /\ obs.pre.fc0 = 1
    /\ regs.fc0 = 0

SaturateOnAdd ==
    /\ Called("alu")
    /\ stk[1].op = "Add"
    /\ stk[1].a = 1
    /\ obs.pre.a0 = Max32
    /\ obs.pre.sar[1] = 0
    /\ obs.pre.s = 0

\* C16 as stated: adding 1 to an accumulator holding 0x7FFF'FFFF with
\* sar[1] = 0 and S = 0 stores 0x7FFF'FFFF and sets fls, V and LV.
C16_SaturateOnAddAsStated ==
    SaturateOnAdd => (regs.a0 = Max32 /\ regs.fls = 1 /\ regs.fv = 1 /\ regs.flv = 1)

\* C16: adding 1 to an accumulator holding 0x7FFF'FFFF with sar[1] = 0 and
\* S = 0 stores 0x7FFF'FFFF and sets fls, E and C = 0, V = 0; LV stays as
\* it was.
C16_SaturateOnAdd ==
    SaturateOnAdd =>
        /\ regs.a0 = Max32
        /\ regs.fls = 1
        /\ regs.fe = 1
        /\ regs.fc0 = 0
        /\ regs.fv = 0
        /\ regs.flv = obs.pre.flv

C16_Witness ==
    /\ SaturateOnAdd
    /\ obs.pre.fls = 0
    /\ obs.pre.flv = 0
    /\ regs.a0 = Max32
    /\ regs.fls = 1


(***************************************************************************)
(* The shifter: ShiftBus40 called on its own and through shfi, FnSteps     *)
(* calls in a row.                                                         *)
(***************************************************************************)
\* -16, 1, 0x4000'0000, -1 and the smallest 40-bit value.
ShiftValues ==
    {FromInt(-16), FromInt(1), <<0, 16384, 0, 0>>, FromInt(-1), <<0, 0, 65408, 65535>>}

\* Right by 4, 1 and 40; left by 1, 9 and 40.
ShiftAmounts == {65532, 65535, 65496, 1, 9, 40}

InitShift ==
    \E md \in {0, 1}, sar1 \in {0, 1} :
        FnStart([ResetRegs EXCEPT !.a0 = FromInt(-16), !.s = md,
                                  !.sar = [i \in 0..1 |-> IF i = 1 THEN sar1 ELSE 0]])

ShiftBus40Call ==
    \E v \in ShiftValues, sv \in ShiftAmounts :
        FnExec("ShiftBus40", [x |-> v, sv |-> sv], ShiftBus40(Now, v, sv, "a0"))

\* shfi a0, a0, by 4 or 1 to the right and by 1 to the left
ShfiCall ==
    \E imm \in {60, 63, 1} :
        FnExec("ShiftBus40", [x |-> regs.a0, sv |-> IF imm >= 32 THEN 65472 + imm ELSE imm],
               shfi(Now, "a0", "a0", imm))

NextShift == ShiftBus40Call \/ ShfiCall

SpecShift == InitShift /\ [][NextShift]_vars

ShiftRightBy4 ==
    /\ Called("ShiftBus40")
    /\ Mask40(stk[1].x) = <<65520, 65535, 255, 0>>
    /\ stk[1].sv = 65532
    /\ obs.pre.s = 0

\* C17 as stated: shifting 0xFF'FFFF'FFF0 right by 4 (sv = 0xFFFC, S = 0)
\* stores 0xFF'FFFF'FFFF and sets C = 1.
C17_ShiftRightAsStated ==
    ShiftRightBy4 => (Mask40(regs.a0) = <<65535, 65535, 255, 0>> /\ regs.fc0 = 1)

\* C17: shifting 0xFF'FFFF'FFF0 right by 4 (sv = 0xFFFC, S = 0) stores
\* 0xFF'FFFF'FFFF (-1) and sets C = 0, the last bit shifted out (bit 3 of
\* the value), V = 0 and M = 1.
C17_ShiftRight ==
    ShiftRightBy4 =>
        /\ regs.a0 = FromInt(-1)
        /\ regs.fc0 = 0
        /\ regs.fv = 0
        /\ regs.fm = 1

C17_Witness ==
    /\ ShiftRightBy4
    /\ obs.pre.fc0 = 1
    /\ regs.a0 = FromInt(-1)
    /\ regs.fc0 = 0


(***************************************************************************)
(* An instruction that accesses memory through the address register and    *)
(* the step that arrn[0] and arstep[0] select, executed AguSteps times;    *)
(* stk holds, per access, the value rU held and the address returned.      *)
(***************************************************************************)
AguSteps == 7

MaxMod == 5

AguStarts == {0, 2, 264, 65535}

InitAgu ==
    \E unit \in {1, 3, 7}, modulo \in BOOLEAN, mod \in 0..MaxMod, legacy \in {0, 1},
       z \in {0, 1}, bankstep \in {0, 1}, code \in 0..3, start \in AguStarts :
        /\ regs = [ResetRegs EXCEPT !.r[unit] = start,
                                    !.m[unit] = IF modulo THEN 1 ELSE 0,
                                    !.brv[unit] = IF modulo THEN 0 ELSE 1,
                                    !.modi = mod, !.modj = mod, !.stepi = 1, !.stepj = 1,
                                    !.stepi0 = IF modulo THEN 1 ELSE 256,
                                    !.stepj0 = IF modulo THEN 1 ELSE 256,
                                    !.bankstep = bankstep, !.legacy_mod = legacy,
                                    !.r3z = z, !.r7z = z,
                                    !.arrn[0] = unit, !.arstep[0] = code]
        /\ obs = NoObs(regs, <<>>)
        /\ mem = <<>>
        /\ pmem = <<>>
        /\ alpha = {0}
        /\ fatal = "none"
        /\ ncycles = AguSteps
        /\ reptrk = NoRepTrk
        /\ looptrk = NoLoopTrk
        /\ stk = <<>>

AccessStep ==
    /\ fatal = "none"
    /\ ncycles > 0
    /\ LET unit == regs.arrn[0]
           a == RnAddressAndModify(Now, unit, ConvertArStep(regs.arstep[0]), FALSE)
       IN  /\ regs' = a.m.regs
           /\ stk' = Append(stk, [r |-> regs.r[unit], address |-> a.v])
    /\ obs' = [obs EXCEPT !.kind = "access", !.pre = regs]
    /\ ncycles' = ncycles - 1
    /\ UNCHANGED <<mem, pmem, alpha, fatal, reptrk, looptrk>>

NextAgu == AccessStep

SpecAgu == InitAgu /\ [][NextAgu]_vars

AguUnit == regs.arrn[0]

AguMod == IF AguUnit < 4 THEN regs.modi ELSE regs.modj

ZeroSkip == (AguUnit = 3 /\ regs.r3z # 0) \/ (AguUnit = 7 /\ regs.r7z # 0)

\* The values rU went through, the present one last.
Visited == [i \in 1..(Len(stk) + 1) |-> IF i <= Len(stk) THEN stk[i].r ELSE regs.r[AguUnit]]

\* rU in modulo mode, stepped by PlusStep with a step register of +1 from a
\* value inside the window.
ModuloPlusOne ==
    /\ obs.kind = "access"
    /\ regs.m[AguUnit] = 1
    /\ regs.brv[AguUnit] = 0
    /\ ConvertArStep(regs.arstep[0]) = "PlusStep"
    /\ And16(Visited[1], Smear(AguMod)) <= AguMod

\* rU comes back to its first value after exactly n steps, through n
\* distinct values.
CycleOf(n) ==
    /\ \A i \in 1..Len(Visited), j \in 1..Len(Visited) :
          (i < j /\ j <= n) => Visited[i] # Visited[j]
    /\ Len(Visited) > n => Visited[n + 1] = Visited[1]

\* C18 as stated: in modulo mode PlusStep with step +1 takes rU through a
\* cycle of exactly mask + 1 addresses, mask being the bit smear of mod.
C18_ModuloCycleAsStated == ModuloPlusOne => CycleOf(Smear(AguMod) + 1)

\* C18: in modulo mode, without zero-skip, PlusStep with step +1 takes rU
\* through a cycle of exactly mod + 1 addresses.
C18_ModuloCycle == (ModuloPlusOne /\ ~ZeroSkip) => CycleOf(AguMod + 1)

C18_Witness ==
    /\ ModuloPlusOne
    /\ ~ZeroSkip
    /\ AguMod = 5
    /\ regs.legacy_mod = 0
    /\ Len(stk) = 6
    /\ stk[1].r = 264
    /\ stk[6].r = 269
    /\ regs.r[AguUnit] = 264

BitReversed == obs.kind = "access" /\ regs.brv[AguUnit] = 1 /\ regs.m[AguUnit] = 0

\* The step of the configured step code in bit-reverse mode.
LinearStep ==
    CASE regs.arstep[0] = 0 -> 0
      [] regs.arstep[0] = 1 -> 1
      [] regs.arstep[0] = 2 -> 65535
      [] regs.arstep[0] = 3 -> IF AguUnit < 4 THEN regs.stepi0 ELSE regs.stepj0

LinearAccess ==
    LET last == stk[Len(stk)]
    IN  /\ \A i \in 0..15 : Bit(last.address, i) = Bit(last.r, 15 - i)
        /\ regs.r[AguUnit] = (last.r + LinearStep) % 65536

\* C19 as stated: with brv[U] = 1 and m[U] = 0 the address of an access
\* through rU is the bit reverse of the value rU held and rU becomes
\* rU + step modulo 2^16.
C19_BitReverseAsStated == BitReversed => LinearAccess

\* C19: the same, for a unit that is not in zero-skip mode.
C19_BitReverse == (BitReversed /\ ~ZeroSkip) => LinearAccess

C19_Witness ==
    /\ BitReversed
    /\ AguUnit = 3
    /\ regs.r3z = 0
    /\ regs.arstep[0] = 3
    /\ Len(stk) = 2
    /\ stk[1].r = 2
    /\ stk[1].address = 16384
    /\ stk[2].r = 258
    /\ stk[2].address = 16512
    /\ regs.r[3] = 514


(***************************************************************************)
(* Block-repeat frames in depth: up to four nested bkrep, each with its    *)
(* own count and end address, followed by two instructions among nop,      *)
(* break, bkrep, bkrepsto [sp] and bkreprst [sp]; the program starts in    *)
(* page 0 or page 1 and sp starts low enough for the frame words to wrap.  *)
(***************************************************************************)
FrameCycles == 7

FramePrefix(k) == Flatten([i \in 1..k |-> <<Encode("bkrep", i, 0), 200 + i>>])

FrameInstr ==
    {<<Encode("nop", 0, 0)>>, <<Encode("break", 0, 0)>>,
     <<Encode("bkrepsto_memsp", 0, 0)>>, <<Encode("bkreprst_memsp", 0, 0)>>,
     <<Encode("bkrep", 7, 0), 300>>}

FramePrograms ==
    {FramePrefix(k) \o i1 \o i2 : k \in 0..4, i1 \in FrameInstr, i2 \in FrameInstr}

InitFrames ==
    \E prog \in FramePrograms, page \in 0..1, ptr \in {2, 1024} :
        Start([ResetRegs EXCEPT !.pc = 65536 * page, !.sp = ptr], prog, {0}, FrameCycles)

NextFrames == RunCycle

SpecFrames == InitFrames /\ [][NextFrames]_vars

Cycle(name) == obs.kind = "cycle" /\ obs.name = name

\* C21: a bkrep executed with bcn = 4 throws and pushes nothing (bcn stays 4,
\* lp stays 1, the four frames are unchanged), so that no bkrep leaves bcn
\* above 4; a bkreprst executed with lp = 1 and bcn = 4 throws as well and
\* Run ends.
C21_LoopStackOverflow ==
    /\ (Cycle("bkrep") /\ Handled.bcn = 4) =>
          /\ obs.post.thrown = "stack overflow"
          /\ fatal = "stack overflow"
          /\ regs.bcn = 4 /\ regs.lp = 1
          /\ regs.bkrep_stack = Handled.bkrep_stack
    /\ Cycle("bkrep") => regs.bcn <= 4
    /\ (Cycle("bkreprst_memsp") /\ Handled.lp # 0 /\ Handled.bcn = 4) =>
          /\ obs.post.thrown = "stack overflow"
          /\ fatal = "stack overflow"
          /\ regs.bcn = 4 /\ regs.bkrep_stack = Handled.bkrep_stack

C21_Witness ==
    /\ Cycle("bkrep") /\ Handled.bcn = 4 /\ Handled.lp = 1
    /\ Handled.bkrep_stack[3].lc = 4
    /\ fatal = "stack overflow"

\* The flag word the bkreprst [sp] of the last cycle read, and its bit 15.
RestoredFlag == DataRead(obs.post.mem, U16(Handled.sp + 1))

FlagValid == RestoredFlag \div 32768 = 1

\* C22: a bkreprst that reads a flag word with bit 15 clear while lp = 1
\* throws; with lp = 0 and the flag invalid no loop becomes live (bcn and lp
\* stay 0); with lp = 0 and the flag valid exactly one loop becomes live
\* (bcn = 1 and lp = 1).
C22_InvalidLoopRestore ==
    Cycle("bkreprst_memsp") =>
        /\ (Handled.lp # 0 /\ ~FlagValid) => obs.post.thrown # "none"
        /\ (Handled.lp = 0 /\ ~FlagValid) =>
              obs.post.regs.bcn = 0 /\ obs.post.regs.lp = 0
        /\ (Handled.lp = 0 /\ FlagValid) =>
              obs.post.regs.bcn = 1 /\ obs.post.regs.lp = 1

\* C23: break executed with lp = 1 decrements bcn by one, sets lp to
\* (bcn # 0) and leaves pc and the frames unchanged: it does not jump to
\* end + 1, the instruction after the break is the next one executed.
C23_Break ==
    (Cycle("break") /\ Handled.lp # 0) =>
        /\ obs.post.thrown = "none"
        /\ obs.post.regs.bcn = Handled.bcn - 1
        /\ obs.post.regs.lp = (IF obs.post.regs.bcn # 0 THEN 1 ELSE 0)
        /\ obs.post.regs.pc = Handled.pc
        /\ obs.post.regs.pc = obs.addr + 1
        /\ regs.pc = obs.addr + 1
        /\ obs.post.regs.bkrep_stack = Handled.bkrep_stack
        /\ obs.post.mem = mem

C23_Witness ==
    /\ Cycle("break") /\ Handled.lp = 1 /\ Handled.bcn = 3
    /\ regs.bcn = 2 /\ regs.lp = 1
    /\ regs.pc = obs.addr + 1
    /\ regs.pc # Handled.bkrep_stack[2].end + 1

\* C24: bkrepsto with the address register at ptr writes lc to ptr,
\* start[15:0] to ptr - 1, end[15:0] to ptr - 2 and the flag word to ptr - 3,
\* the flag holding lp in bit 15 and start[17:16] both in bits 9:8 and in
\* bits 1:0, and leaves the register at ptr - 4; bkreprst reads the flag from
\* ptr + 1, end[15:0] from ptr + 2, start[15:0] from ptr + 3 and lc from
\* ptr + 4 of its register and leaves it at ptr + 4.
C24_FrameLayout ==
    /\ Cycle("bkrepsto_memsp") =>
          LET ptr == Handled.sp
              top == Handled.bkrep_stack[0]
              flag == DataRead(mem, U16(ptr - 3))
          IN  /\ DataRead(mem, ptr) = top.lc
              /\ DataRead(mem, U16(ptr - 1)) = top.start % 65536
              /\ DataRead(mem, U16(ptr - 2)) = top.end % 65536
              /\ flag \div 32768 = Handled.lp
              /\ (flag \div 256) % 4 = top.start \div 65536
              /\ flag % 4 = top.start \div 65536
              /\ flag = 32768 * Handled.lp + 257 * (top.start \div 65536)
              /\ regs.sp = U16(ptr - 4)
    /\ (Cycle("bkreprst_memsp") /\ obs.post.thrown = "none") =>
          LET ptr == Handled.sp
              top == obs.post.regs.bkrep_stack[0]
          IN  /\ top.lc = DataRead(mem, U16(ptr + 4))
              /\ top.start = DataRead(mem, U16(ptr + 3)) + 65536 * (RestoredFlag % 4)
              /\ top.end = DataRead(mem, U16(ptr + 2))
                              + 65536 * ((RestoredFlag \div 256) % 4)
              /\ regs.sp = U16(ptr + 4)

C24_Witness ==
    /\ Cycle("bkrepsto_memsp") /\ Handled.lp = 1 /\ Handled.sp = 2
    /\ Handled.bkrep_stack[0] = [start |-> 65538, end |-> 65737, lc |-> 1]
    /\ DataRead(mem, 65535) = 33025
    /\ DataRead(mem, 0) = 201 /\ DataRead(mem, 1) = 2 /\ DataRead(mem, 2) = 1
    /\ regs.sp = 65534

\* The registers after the bkreprst [sp] that follows the bkrepsto [sp] of
\* the last cycle at once, u being the outcome of an out-of-bounds write.
RestoredAfterStore(u) == RestoreBlockRepeat(obs.post, "sp", u).regs

\* C30: at every live depth bcn in 0..4, with start and end of each frame in
\* one 64K page, bkrepsto on an address register followed at once by bkreprst
\* on the same register restores bcn, lp, every live frame and the address
\* register, and accesses no slot of bkrep_stack outside 0..3.
C30_StoreRestoreRoundTrip ==
    (Cycle("bkrepsto_memsp") /\ obs.post.thrown = "none") =>
        /\ ~CopyBackwardOutOfBounds(obs.post.regs)
        /\ \A u \in UBOutcomes :
              /\ RestoredAfterStore(u).bcn = Handled.bcn
              /\ RestoredAfterStore(u).lp = Handled.lp
              /\ RestoredAfterStore(u).sp = Handled.sp
              /\ \A i \in 0..3 : i < Handled.bcn =>
                    RestoredAfterStore(u).bkrep_stack[i] = Handled.bkrep_stack[i]


(***************************************************************************)
(* Context store and restore: a1 and b1 hold different values, interrupts  *)
(* arrive with and without context switching, and the words after          *)
(* `eint; nop` and in the handlers are among nop, retic, cntx_s, cntx_r.   *)
(***************************************************************************)
CtxCycles == 4

CtxWords ==
    {Encode("nop", 0, 0), Encode("retic", 0, 0), Encode("cntx_s", 0, 0),
     Encode("cntx_r", 0, 0)}

\* a1 and b1: 1 and 0x40'0000'0000; -1 and 0; -3 and 0x4000'0000.
CtxAccs ==
    {<<FromInt(1), <<0, 0, 64, 0>> >>, <<FromInt(-1), Zero64>>,
     <<FromInt(-3), <<0, 16384, 0, 0>> >>}

InitCtx ==
    \E ab \in CtxAccs, ic \in {Bits3(0, 0, 0), Bits3(1, 1, 1), Bits3(0, 1, 0)} :
        Start([ResetRegs EXCEPT !.im = Bits3(1, 1, 1), !.ic = ic, !.sp = 16,
                                !.a1 = ab[1], !.b1 = ab[2]],
              <<Encode("eint", 0, 0), Encode("nop", 0, 0)>>, CtxWords, CtxCycles)

NextCtx == RunCycle \/ SignalInterrupt

SpecCtx == InitCtx /\ [][NextCtx]_vars

\* What ContextStore does to the accumulators and the flags of before.
StoreEffect(before, after) ==
    /\ after.a1 = before.b1
    /\ after.b1 = before.a1
    /\ after.fz = Truth(before.b1 = Zero64)
    /\ after.fm = Bit39(before.b1)
    /\ after.fe = Truth(~Fits32(before.b1))
    /\ after.fn = Truth(before.b1 = Zero64
                        \/ (Fits32(before.b1)
                            /\ U64Bit(before.b1, 31) # U64Bit(before.b1, 30)))
    /\ after.bank # before.bank

NoStoreEffect(before, after) ==
    /\ after.a1 = before.a1 /\ after.b1 = before.b1
    /\ after.fz = before.fz /\ after.fm = before.fm
    /\ after.fe = before.fe /\ after.fn = before.fn
    /\ after.bank = before.bank

\* The last cycle took interrupt i.
Took(i) ==
    /\ obs.kind = "cycle" /\ obs.post.thrown = "none"
    /\ Post.ie = 1 /\ obs.fin.regs.ie = 0
    /\ Post.ip[i] = 1 /\ obs.fin.regs.ip[i] = 0

\* The last cycle ran retic as the first instruction of the handler of an
\* interrupt that was taken with a context store.
RestoredAtOnce ==
    /\ Cycle("retic") /\ stk # <<>> /\ stk[1].stored
    /\ obs.addr = stk[1].handler
    /\ obs.pre.ie = 0

\* C25: ContextStore sets a1 to the old b1, with Z, M, E and N taken from
\* that value and no saturation, and b1 to the old a1; ContextRestore
\* exchanges a1 and b1; a ContextStore followed by a ContextRestore leaves
\* a1 and b1 as they were; interrupt i performs ContextStore exactly when
\* ic[i] = 1.
C25_ContextCrossMove ==
    /\ Cycle("cntx_s") => StoreEffect(Handled, Post)
    /\ Cycle("cntx_r") => (Post.a1 = Handled.b1 /\ Post.b1 = Handled.a1)
    /\ RestoredAtOnce => (Post.a1 = stk[1].a1 /\ Post.b1 = stk[1].b1)
    /\ \A i \in 0..2 : Took(i) =>
          IF Post.ic[i] = 1 THEN StoreEffect(Post, obs.fin.regs)
          ELSE NoStoreEffect(Post, obs.fin.regs)

C25_Witness ==
    /\ RestoredAtOnce
    /\ stk[1].a1 = FromInt(1) /\ stk[1].b1 = <<0, 0, 64, 0>>
    /\ obs.pre.a1 = <<0, 0, 64, 0>> /\ obs.pre.b1 = FromInt(1) /\ obs.pre.fe = 1
    /\ regs.a1 = FromInt(1) /\ regs.b1 = <<0, 0, 64, 0>>


(***************************************************************************)
(* Instructions that store two words through an address register.  A       *)
(* handler's DataWrite calls are kept as the sequence they are issued in;  *)
(* Stores issues them one after the other.                                 *)
(***************************************************************************)
\* offset is the OffsetValue: 0 Zero, 1 PlusOne, 2 MinusOne, 3 MinusOneDmod.
OffsetAddress(r, unit, address, offset, dmod) ==
    IF offset = 0 THEN address
    ELSE IF offset = 3 THEN U16(address - 1)
    ELSE LET emod == r.m[unit] # 0 /\ r.brv[unit] = 0 /\ ~dmod
             mod == IF unit < 4 THEN r.modi ELSE r.modj
             mask == Or16(1, Smear(mod))
         IN  IF offset = 1
             THEN IF ~emod THEN U16(address + 1)
                  ELSE IF And16(address, mask) = mod THEN And16(address, Not16(mask))
                  ELSE U16(address + 1)
             ELSE IF ~emod THEN U16(address - 1)
                  ELSE IF And16(address, mask) = 0 THEN Or16(address, mod)
                  ELSE U16(address - 1)

RECURSIVE Stores(_, _)
Stores(s, w) ==
    IF w = <<>> THEN s
    ELSE Stores([s EXCEPT !.mem = DataWrite(s.mem, Head(w).address, Head(w).value)], Tail(w))

ProductToBus32_NoShift(s, unit) == s.regs.p[unit]

\* The two DataWrite calls of mov2 and mova, in the order of the code: the
\* low word l at address2, then the high word h at address; ra is what
\* RnAddressAndModify returned.
TwoWordsAt(ra, unit, offset, l, h) ==
    [m |-> ra.m,
     w |-> <<[address |-> OffsetAddress(ra.m.regs, unit, ra.v, offset, FALSE), value |-> l],
             [address |-> ra.v, value |-> h]>>]

TwoWords(s, l, h, b, bs) ==
    TwoWordsAt(RnAddressAndModify(s, s.regs.arrn[b], ConvertArStep(s.regs.arstep[bs]), FALSE),
               s.regs.arrn[b], s.regs.aroffset[bs], l, h)

\* The memory after the DataWrite calls of x.
Issued(x) == Stores(x.m, x.w)

\* mov2(Px a, ArRn2 b, ArStep2 bs)
mov2_writes(s, a, b, bs) ==
    TwoWords(s, ProductToBus32_NoShift(s, a)[1], ProductToBus32_NoShift(s, a)[2], b, bs)

mov2(s, a, b, bs) == Issued(mov2_writes(s, a, b, bs))

\* mova(Ab a, ArRn2 b, ArStep2 bs); sat is what SaturateAcc returned.
SaturatedWords(sat, b, bs) == TwoWords(sat.m, sat.v[1], sat.v[2], b, bs)

mova_writes(s, a, b, bs) == SaturatedWords(SaturateAcc(s, GetAcc(s, a), 0), b, bs)

\* A faulty variant of Issued: the second DataWrite is issued first.
IssuedBackwards(x) == Stores(x.m, <<x.w[2], x.w[1]>>)

\* A faulty variant of mova: the high word is written first.
mova_high_first(s, a, b, bs) == IssuedBackwards(mova_writes(s, a, b, bs))

mova(s, a, b, bs) == Issued(mova_writes(s, a, b, bs))

(***************************************************************************)
(* mova and mov2 executed MovSteps times through r1, with every offset,    *)
(* with and without a step and modulo addressing; stk holds the DataWrite  *)
(* calls the last instruction issued.                                      *)
(***************************************************************************)
MovSteps == 2

InitMov ==
    \E start \in {5, 7, 65535}, code \in {0, 1}, offset \in 0..3, modulo \in {0, 1},
       a \in {<<4660, 22136, 0, 0>>, <<0, 0, 64, 0>>} :
        /\ regs = [ResetRegs EXCEPT !.r[1] = start, !.m[1] = modulo, !.modi = 7,
                                    !.arrn[0] = 1, !.arstep[0] = code,
                                    !.aroffset[0] = offset,
                                    !.a0 = a, !.p[0] = <<43981, 4660>>]
        /\ obs = NoObs(regs, <<>>)
        /\ mem = <<>>
        /\ pmem = <<>>
        /\ alpha = {0}
        /\ fatal = "none"
        /\ ncycles = MovSteps
        /\ reptrk = NoRepTrk
        /\ looptrk = NoLoopTrk
        /\ stk = <<>>

\* The cycle of a storing instruction: post is what the handler leaves, x
\* the DataWrite calls it issued.
StoreExec(name, post, x) ==
    /\ fatal = "none"
    /\ ncycles > 0
    /\ regs' = post.regs
    /\ mem' = post.mem
    /\ fatal' = post.thrown
    /\ ncycles' = ncycles - 1
    /\ obs' = [obs EXCEPT !.kind = "store", !.name = name, !.pre = regs]
    /\ stk' = x.w
    /\ UNCHANGED <<pmem, alpha, reptrk, looptrk>>

MovaStep == StoreExec("mova", mova(Now, "a0", 0, 0), mova_writes(Now, "a0", 0, 0))

Mov2Step == StoreExec("mov2", mov2(Now, 0, 0, 0), mov2_writes(Now, 0, 0, 0))

NextMov == MovaStep \/ Mov2Step

SpecMov == InitMov /\ [][NextMov]_vars

\* The 32 bits the last instruction stored: the saturated a0 or p0.
Stored ==
    IF obs.name = "mova"
    THEN SaturateAcc([regs |-> obs.pre, mem |-> <<>>, thrown |-> "none"], obs.pre.a0, 0).v
    ELSE obs.pre.p[0]

\* C26: mova and mov2 issue the DataWrite of the low word, at the offset
\* address, before the DataWrite of the high word, at the base address; when
\* the offset is Zero both addresses are equal and the word left in memory
\* is the high word.
C26_WriteOrder ==
    obs.kind = "store" =>
        /\ Len(stk) = 2
        /\ stk[1].value = Stored[1]
        /\ stk[2].value = Stored[2]
        /\ stk[2].address = obs.pre.r[1]
        /\ stk[1].address =
              OffsetAddress(obs.pre, 1, obs.pre.r[1], obs.pre.aroffset[0], FALSE)
        /\ DataRead(mem, stk[2].address) = Stored[2]
        /\ obs.pre.aroffset[0] = 0 =>
              /\ stk[1].address = stk[2].address
              /\ DataRead(mem, obs.pre.r[1]) = Stored[2]
        /\ stk[1].address # stk[2].address =>
              DataRead(mem, stk[1].address) = Stored[1]

C26_Witness ==
    /\ obs.kind = "store" /\ obs.name = "mova" /\ obs.pre.aroffset[0] = 0
    /\ obs.pre.r[1] = 5 /\ obs.pre.a0 = <<4660, 22136, 0, 0>>
    /\ stk = <<[address |-> 5, value |-> 4660], [address |-> 5, value |-> 22136]>>
    /\ DataRead(mem, 5) = 22136


(***************************************************************************)
(* Throwing instructions with interrupts enabled: every program word is    *)
(* one of nop, break, retd, an undefined word, mov pc (a1 = 0x40000),      *)
(* bkrep and bkreprst [sp], or, after one or four nested bkrep, one of     *)
(* nop, bkrep and bkreprst [sp]; interrupts are signalled at any time.     *)
(***************************************************************************)
AbortCycles == 2

AbortWords ==
    {Encode("nop", 0, 0), Encode("break", 0, 0), Encode("retd", 0, 0), 65535,
     Encode("mov_pc", 0, 0), Encode("bkrep", 7, 0), Encode("bkreprst_memsp", 0, 0)}

\* The words behind the nested loops are the loop instructions only.
DeepWords == {Encode("nop", 0, 0), Encode("bkrep", 7, 0), Encode("bkreprst_memsp", 0, 0)}

InitAbort ==
    \E k \in {0, 1, 4} :
        Start([ResetRegs EXCEPT !.ie = 1, !.im = Bits3(1, 1, 1), !.sp = 16,
                                !.a1 = FromInt(262144)],
              FramePrefix(k), IF k = 0 THEN AbortWords ELSE DeepWords,
              IF k = 0 THEN AbortCycles ELSE k + AbortCycles - 1)

NextAbort == RunCycle \/ SignalInterrupt

SpecAbort == InitAbort /\ [][NextAbort]_vars

\* The handler of the last cycle threw.
Threw == obs.kind = "cycle" /\ obs.post.thrown # "none"

\* C27: when the handler of a cycle throws (pc flies, block-repeat overflow,
\* invalid restore, undefined or unimplemented instruction), the interrupt
\* check of that cycle is not executed, no interrupt is taken and Run
\* executes no further cycle.
C27_FatalAborts ==
    /\ [](Threw => /\ obs.fin = obs.post
                   /\ regs = obs.post.regs /\ mem = obs.post.mem
                   /\ fatal # "none")
    /\ [][fatal = "none"]_vars

C27_Witness ==
    /\ Threw /\ fatal = "unimplemented"
    /\ Post.ie = 1 /\ Pending(Post) = {1, 2}
    /\ regs.ip = Post.ip /\ regs.pc = Post.pc /\ regs.sp = 16
    /\ ncycles > 0


(***************************************************************************)
(* Run called twice: Run(a) and, once it has returned, Run(b), on the      *)
(* programs of SpecFlow (rep and bkrep loops included).  stk holds the     *)
(* machine as the first call found it, a, b and the call in progress.      *)
(***************************************************************************)
MaxSplit == 3

InitSplit ==
    \E prog \in FlowPrograms, a \in 0..MaxSplit, b \in 0..MaxSplit :
        /\ regs = ResetRegs
        /\ mem = <<>>
        /\ pmem = Load(0, prog)
        /\ alpha = {0}
        /\ fatal = "none"
        /\ ncycles = a
        /\ obs = NoObs(regs, <<>>)
        /\ reptrk = NoRepTrk
        /\ looptrk = NoLoopTrk
        /\ stk = <<[regs |-> regs, mem |-> mem, a |-> a, b |-> b, call |-> 1]>>

\* A faulty variant of RunAgain: entering Run ends a repeat in progress.
RunAgain_ends_rep ==
    /\ fatal = "none"
    /\ ncycles = 0
    /\ stk[1].call = 1
    /\ ncycles' = stk[1].b
    /\ stk' = <<[stk[1] EXCEPT !.call = 2]>>
    /\ regs' = [regs EXCEPT !.rep = FALSE]
    /\ obs' = [obs EXCEPT !.kind = "run"]
    /\ UNCHANGED <<mem, pmem, alpha, fatal, reptrk, looptrk>>

\* Run(a) has returned and Run(b) is called: the loop counter i of Run is
\* the only thing that starts afresh.
RunAgain ==
    /\ fatal = "none"
    /\ ncycles = 0
    /\ stk[1].call = 1
    /\ ncycles' = stk[1].b
    /\ stk' = <<[stk[1] EXCEPT !.call = 2]>>
    /\ obs' = [obs EXCEPT !.kind = "run"]
    /\ UNCHANGED <<regs, mem, pmem, alpha, fatal, reptrk, looptrk>>

NextSplit == RunCycle \/ RunAgain

SpecSplit == InitSplit /\ [][NextSplit]_vars

\* The machine s after n iterations of the loop of a single Run on the
\* program memory pm (words never bound read as the filler 0).
RECURSIVE RunN(_, _, _)
RunN(s, pm, n) ==
    IF n = 0 \/ s.thrown # "none" THEN s
    ELSE LET opcode == IF s.regs.pc \in DOMAIN pm THEN pm[s.regs.pc] ELSE 0
             dec == Decode(opcode)
             expand == IF dec.need /\ (s.regs.pc + 1) \in DOMAIN pm
                       THEN pm[s.regs.pc + 1] ELSE 0
         IN  RunN(Finished(Executed(s, dec, expand, "none")), pm, n - 1)

\* The cycles executed since the first call, and a single Run of as many.
CyclesDone == IF stk[1].call = 1 THEN stk[1].a - ncycles ELSE stk[1].a + stk[1].b - ncycles

SingleRun ==
    RunN([regs |-> stk[1].regs, mem |-> stk[1].mem, thrown |-> "none"], pmem, CyclesDone)

InitStack ==
    \E pc \in PcSamples, sp \in SpSamples, e \in {0, 1} :
        FnStart([ResetRegs EXCEPT !.pc = pc, !.sp = sp, !.pc_endian = e])

PushPCCall == FnExec("PushPC", [mem |-> mem], PushPC(Now))

PopPCCall == FnExec("PopPC", [mem |-> mem], PopPC(Now))

NextStack == PushPCCall \/ PopPCCall

SpecStack == InitStack /\ [][NextStack]_vars

\* The data words that differ between the memories m and n.
Changed(m, n) == {a \in (DOMAIN m) \cup (DOMAIN n) : DataRead(m, a) # DataRead(n, a)}

\* C29: PushPC decrements sp by exactly 2 and writes exactly two data words:
\* with pc_endian = 1, pc[17:16] at sp_old - 1 and pc[15:0] at sp_old - 2;
\* with pc_endian = 0, pc[15:0] at sp_old - 1 and pc[17:16] at sp_old - 2;
\* PopPC increments sp by exactly 2 and writes no memory.
C29_PcStackLayout ==
    /\ Called("PushPC") =>
          LET hi == DataRead(mem, U16(obs.pre.sp - 1))
              lo == DataRead(mem, U16(obs.pre.sp - 2))
          IN  /\ regs.sp = U16(obs.pre.sp - 2)
              /\ regs = [obs.pre EXCEPT !.sp = regs.sp]
              /\ obs.pre.pc_endian = 1 =>
                    (hi = obs.pre.pc \div 65536 /\ lo = obs.pre.pc % 65536)
              /\ obs.pre.pc_endian = 0 =>
                    (hi = obs.pre.pc % 65536 /\ lo = obs.pre.pc \div 65536)
              /\ Changed(mem, stk[1].mem) \subseteq {U16(obs.pre.sp - 1), U16(obs.pre.sp - 2)}
              /\ DOMAIN mem = (DOMAIN stk[1].mem) \cup {U16(obs.pre.sp - 1), U16(obs.pre.sp - 2)}
    /\ Called("PopPC") =>
          /\ regs.sp = U16(obs.pre.sp + 2)
          /\ mem = stk[1].mem

C29_Witness ==
    /\ Called("PushPC") /\ obs.pre.pc_endian = 1 /\ obs.pre.pc = 131073
    /\ obs.pre.sp = 1 /\ regs.sp = 65535
    /\ DataRead(mem, 0) = 2 /\ DataRead(mem, 65535) = 1
    /\ Changed(mem, stk[1].mem) = {0, 65535}

(***************************************************************************)
(* Nested block repeats: an outer bkrep whose body holds an inner bkrep,   *)
(* the rest of the program being nop; no interrupt is enabled.             *)
(***************************************************************************)
NestCycles == 16

\* bkrep k1, e1 at 0; p nop; bkrep k2, e2 at b = 2 + p; nop from there on.
NestPrograms ==
    {<<Encode("bkrep", k1, 0), e1>> \o [i \in 1..p |-> Encode("nop", 0, 0)]
        \o <<Encode("bkrep", k2, 0), e2>> :
        k1 \in Counts, k2 \in Counts, p \in 0..1, e1 \in 4..7, e2 \in 4..7}

InitNest == \E prog \in NestPrograms : Start(ResetRegs, prog, {0}, NestCycles)

NextNest == RunCycle

SpecNest == InitNest /\ [][NextNest]_vars

\* The addresses of the bkrep instructions in the body of the tracked loop.
InnerAt == {a \in Body(looptrk.start, looptrk.end) : Decode(WordAt(a)).name = "bkrep"}

InnerStart == (CHOOSE a \in InnerAt : TRUE) + 2

InnerEnd == WordAt((CHOOSE a \in InnerAt : TRUE) + 1)

InnerCount == Decode(WordAt(CHOOSE a \in InnerAt : TRUE)).a

\* The loop opened by the first bkrep is over; its body holds one bkrep and
\* otherwise nop, and the inner body start..end lies inside the outer body.
NestCase ==
    /\ looptrk.on
    /\ looptrk.done
    /\ looptrk.start = looptrk.at + 2
    /\ Cardinality(InnerAt) = 1
    /\ BodyNames \subseteq {"nop", "bkrep"}
    /\ InnerStart <= InnerEnd
    /\ InnerEnd <= looptrk.end

NestRuns ==
    /\ DOMAIN looptrk.count = Body(looptrk.start, looptrk.end)
    /\ \A a \in DOMAIN looptrk.count :
          looptrk.count[a] = IF a >= InnerStart /\ a <= InnerEnd
                             THEN (looptrk.k + 1) * (InnerCount + 1)
                             ELSE looptrk.k + 1
    /\ looptrk.exitpc = looptrk.end + 1
    /\ looptrk.bcn1 = looptrk.bcn0
    /\ looptrk.lp1 = looptrk.lp0

\* C31 as stated: for an outer bkrep k1 whose body contains an inner
\* bkrep k2, the inner body is executed (k1+1)*(k2+1) times and the other
\* instructions of the outer body k1+1 times; on exit pc is the outer end+1
\* and bcn, lp are as before the outer bkrep, wherever the inner end lies in
\* the outer body, the outer end included.
C31_NestedAsStated == NestCase => NestRuns

\* C31, amended: the same, provided the inner loop ends before the outer one.
C31_Nested == (NestCase /\ InnerEnd < looptrk.end) => NestRuns

C31_Witness ==
    /\ NestCase
    /\ InnerEnd < looptrk.end
    /\ looptrk.k = 1
    /\ InnerCount = 1
    /\ InnerStart > looptrk.start + 2
    /\ InnerEnd > InnerStart

(***************************************************************************)
(* Pending interrupts (SpecInt).                                           *)
(***************************************************************************)
\* The step is one cycle of Run that takes the regular interrupt i.
TakesInterrupt(i) ==
    /\ obs'.kind = "cycle"
    /\ obs'.post.thrown = "none"
    /\ obs'.post.regs.ie = 1
    /\ ~obs'.post.regs.rep
    /\ obs'.post.regs.im[i] = 1
    /\ obs'.post.regs.ip[i] = 1
    /\ \A j \in 0..2 : j < i => ~(obs'.post.regs.im[j] = 1 /\ obs'.post.regs.ip[j] = 1)
    /\ regs'.pc = 6 + 8 * i

\* The step is a call of SignalInterrupt or SignalVectoredInterrupt.
Signals == obs'.kind = "signal"

\* C32: a pending bit ip[i] stays 1 over every step but the cycle that takes
\* interrupt i and vectors pc to 0x0006 + 8*i (a cycle with ie = 0, with rep
\* set, with im[i] = 0 or taking a lower interrupt keeps it), and
\* SignalInterrupt(i) changes nothing but ip[i].
C32_PendingKept ==
    [][/\ \A i \in 0..2 : (regs.ip[i] = 1 /\ regs'.ip[i] = 0) => TakesInterrupt(i)
       /\ (Signals /\ regs'.ip # regs.ip) =>
             /\ \E i \in 0..2 : regs' = [regs EXCEPT !.ip[i] = 1]
             /\ mem' = mem
             /\ pmem' = pmem
             /\ fatal' = fatal]_vars

\* ip[1] and ip[2] were pending before a cycle that took interrupt 0, and
\* ip[2] before a cycle run with ie = 0.
C32_Witness ==
    /\ obs.kind = "cycle"
    /\ obs.pre.ip = Bits3(1, 1, 1)
    /\ \/ /\ obs.fin # obs.post
          /\ regs.pc = 6
          /\ regs.im = Bits3(1, 1, 1)
          /\ regs.ip = Bits3(0, 1, 1)
       \/ /\ obs.post.regs.ie = 0
          /\ regs.im = Bits3(1, 1, 1)
          /\ regs.ip = Bits3(1, 1, 1)

(***************************************************************************)
(* An interrupt pending over a repeat: rep k followed by a one-word or a   *)
(* two-word instruction, run with ie = 1 and interrupts signalled between  *)
(* the cycles.                                                             *)
(***************************************************************************)
RespCycles == 5

RespInstr ==
    {<<Encode("nop", 0, 0)>>}
    \cup {<<Encode("mov_r6", 0, 0), w>> : w \in {0, Encode("dint", 0, 0)}}

RespPrograms == {<<Encode("rep", k, 0)>> \o i1 : k \in Counts, i1 \in RespInstr}

InitResp ==
    \E prog \in RespPrograms, im \in Masks :
        Start([ResetRegs EXCEPT !.ie = 1, !.im = im], prog, {0}, RespCycles)

NextResp == RunCycle \/ SignalInterrupt

SpecResp == InitResp /\ [][NextResp]_vars

\* Handlers that write none of ie, im, ip, rep, repc and do not throw.
KeepsInterruptState == {"nop", "mov_r6"}

\* The last cycle began with rep set, ie = 1 and interrupt i deliverable, and
\* the instruction under the rep is one of KeepsInterruptState.
PendingUnderRep(i) ==
    /\ obs.kind = "cycle"
    /\ reptrk.on
    /\ Decode(reptrk.op).name \in KeepsInterruptState
    /\ obs.pre.rep
    /\ obs.pre.ie = 1
    /\ obs.pre.im[i] = 1
    /\ obs.pre.ip[i] = 1

\* C33: when ie = 1, im[i] = 1 and ip[i] = 1 hold with rep set and repc = k,
\* and the repeated instruction writes none of ie, im, ip, rep, repc, then a
\* cycle begun with repc > 0 counts repc down and takes no interrupt, and the
\* cycle begun with repc = 0 (the k+1-th) clears rep and takes the lowest
\* pending interrupt at its end.
C33_BoundedResponse ==
    \A i \in 0..2 :
        PendingUnderRep(i) =>
            IF obs.pre.repc = 0
            THEN /\ ~obs.post.regs.rep
                 /\ obs.fin # obs.post
                 /\ regs.ie = 0
                 /\ regs.pc = 6 + 8 * Lowest(Pending(obs.post.regs))
            ELSE /\ regs.rep
                 /\ regs.repc = obs.pre.repc - 1
                 /\ obs.fin = obs.post
                 /\ regs.ie = 1
                 /\ regs.im[i] = 1
                 /\ regs.ip[i] = 1

\* The same for a one-word instruction under the rep.
BoundedResponseOneWord ==
    ~Decode(reptrk.op).need => C33_BoundedResponse

(***************************************************************************)
(* The shifter and the exponent detector on a wider range of operands:     *)
(* ShiftBus40 called with every power of two, its negative and its         *)
(* complement, and with the shift count Exp gives for the operand, under   *)
(* every setting of S, sar[1], V, LV and fls.                              *)
(***************************************************************************)
BusSteps == 1

\* 0, 2^k and -2^k - 1 for k in 0..38, -2^k for k in 0..39, 0x7FFF'FFFF,
\* 0x8000'0000, 2^39 - 1 and two alternating bit patterns.
BusValues ==
    {Zero64}
    \cup {Shl64(FromInt(1), k) : k \in 0..38}
    \cup {SignExtend(40, Not64(Shl64(FromInt(1), k))) : k \in 0..38}
    \cup {SignExtend(40, Shl64(FromInt(-1), k)) : k \in 0..39}
    \cup {Max32, <<0, 32768, 0, 0>>, <<65535, 65535, 127, 0>>, <<21845, 21845, 65493, 65535>>,
          <<43690, 43690, 42, 0>>}

\* Left by 40, 41 and 0x7FFF; right by 1, 4, 8, 31, 32, 39, 40, 41 and 0x8000.
BusAmounts == {40, 41, 32767, 65535, 65532, 65528, 65505, 65504, 65497, 65496, 65495, 32768}

InitBus ==
    \E md \in {0, 1}, sar1 \in {0, 1}, fv \in {0, 1}, flv \in {0, 1}, fls \in {0, 1} :
        LET r == [ResetRegs EXCEPT !.s = md, !.fv = fv, !.flv = flv, !.fls = fls, !.fc0 = 1,
                                   !.sar = [i \in 0..1 |-> IF i = 1 THEN sar1 ELSE 0]]
        IN  /\ regs = r
            /\ mem = <<>>
            /\ pmem = <<>>
            /\ alpha = {0}
            /\ fatal = "none"
            /\ ncycles = BusSteps
            /\ obs = NoObs(r, <<>>)
            /\ reptrk = NoRepTrk
            /\ looptrk = NoLoopTrk
            /\ stk = <<>>

BusShiftCall ==
    \E v \in BusValues, sv \in BusAmounts :
        FnExec("ShiftBus40", [x |-> v, sv |-> sv], ShiftBus40(Now, v, sv, "a0"))

\* The last call was ShiftBus40 with a left shift by 40 or more.
LeftBy40 ==
    /\ Called("ShiftBus40")
    /\ stk[1].sv >= 40
    /\ stk[1].sv < 32768

\* C34 as stated: ShiftBus40 with 40 <= sv < 0x8000 stores 0 and sets C = 0
\* whatever v, S and sar[1] are, and with S = 0 and v # 0 also sets V = 1
\* and LV = 1.
C34_LeftBy40AsStated ==
    LeftBy40 =>
        /\ regs.a0 = Zero64
        /\ regs.fc0 = 0
        /\ (obs.pre.s = 0 /\ stk[1].x # Zero64) => (regs.fv = 1 /\ regs.flv = 1)

\* The saturator of ShiftBus40 acts: S = 0, sar[1] = 0 and v # 0.
LeftSaturates == obs.pre.s = 0 /\ obs.pre.sar[1] = 0 /\ stk[1].x # Zero64

\* C34, amended: ShiftBus40 with 40 <= sv < 0x8000 sets C = 0, Z = 1 and
\* M = 0; with S = 0 and v # 0 it sets V = 1 and LV = 1; it stores 0, except
\* that with S = 0, sar[1] = 0 and v # 0 it stores 0x7FFF'FFFF for v > 0 and
\* -0x8000'0000 for v < 0 and sets fls = 1.
C34_LeftBy40 ==
    LeftBy40 =>
        /\ regs.fc0 = 0
        /\ regs.fz = 1
        /\ regs.fm = 0
        /\ (obs.pre.s = 0 /\ stk[1].x # Zero64) => (regs.fv = 1 /\ regs.flv = 1)
        /\ (obs.pre.s = 0 /\ stk[1].x = Zero64) => (regs.fv = 0 /\ regs.flv = obs.pre.flv)
        /\ obs.pre.s = 1 => (regs.fv = obs.pre.fv /\ regs.flv = obs.pre.flv)
        /\ IF LeftSaturates
           THEN /\ regs.a0 = IF Bit39(stk[1].x) = 1 THEN Min32 ELSE Max32
                /\ regs.fls = 1
           ELSE /\ regs.a0 = Zero64
                /\ regs.fls = obs.pre.fls

C34_Witness ==
    /\ LeftBy40
    /\ LeftSaturates
    /\ stk[1].sv = 32767
    /\ Bit39(stk[1].x) = 1
    /\ regs.a0 = Min32
    /\ obs.pre.flv = 0
    /\ regs.flv = 1

(***************************************************************************)
(* Arithmetic right shift (SpecBus).                                       *)
(***************************************************************************)
\* The last call was ShiftBus40 with S = 0 and a right shift; nsv = -sv.
RightShift ==
    /\ Called("ShiftBus40")
    /\ stk[1].sv >= 32768
    /\ obs.pre.s = 0

ShiftCount == 65536 - stk[1].sv

\* r = floor(v / 2^n) for 40-bit signed v and 1 <= n <= 39: r has 40 - n
\* significant bits and 0 <= v - r * 2^n < 2^n.
IsFloor(v, n, r) ==
    /\ r = SignExtend(40 - n, r)
    /\ Shr64(Sub64(v, Shl64(r, n)), n) = Zero64

\* The quotient, bit by bit: bit i of r is bit i + n of v, bit 39 above.
Quotient ==
    FromBits(LAMBDA i : IF i + ShiftCount <= 39 THEN U64Bit(stk[1].x, i + ShiftCount)
                        ELSE U64Bit(stk[1].x, 39))

\* C35: with S = 0, ShiftBus40(v, -nsv) for nsv in 1..39 computes
\* r = floor(v / 2^nsv), sets C to bit nsv - 1 of v, V = 0 and Z, M, E, N
\* from r, and stores r, or with sar[1] = 0 and r outside the signed 32-bit
\* range the nearer end of that range with fls = 1; for nsv >= 40 it stores
\* -1 for v < 0 and 0 otherwise, with C = bit 39 of v.
C35_ArithmeticRight ==
    RightShift =>
        IF ShiftCount <= 39
        THEN /\ IsFloor(stk[1].x, ShiftCount, Quotient)
             /\ regs.fc0 = U64Bit(stk[1].x, ShiftCount - 1)
             /\ regs.fv = 0
             /\ regs.fz = Truth(Quotient = Zero64)
             /\ regs.fm = Bit39(Quotient)
             /\ regs.fe = Truth(~Fits32(Quotient))
             /\ regs.fn = Truth(Quotient = Zero64
                                \/ (Fits32(Quotient)
                                    /\ U64Bit(Quotient, 31) # U64Bit(Quotient, 30)))
             /\ IF obs.pre.sar[1] = 0 /\ ~Fits32(Quotient)
                THEN /\ regs.a0 = IF Bit39(Quotient) = 1 THEN Min32 ELSE Max32
                     /\ regs.fls = 1
                ELSE /\ regs.a0 = Quotient
                     /\ regs.fls = obs.pre.fls
        ELSE /\ regs.a0 = IF Bit39(stk[1].x) = 1 THEN FromInt(-1) ELSE Zero64
             /\ regs.fc0 = Bit39(stk[1].x)

\* -2^20 - 1 shifted right by 4 gives -2^16 - 1 with C = 1.
C35_Witness ==
    /\ RightShift
    /\ ShiftCount = 4
    /\ stk[1].x = <<65535, 65519, 65535, 65535>>
    /\ regs.a0 = <<65535, 65534, 65535, 65535>>
    /\ regs.fc0 = 1
    /\ regs.fm = 1

\* 2^38 shifted right by 1 with sar[1] = 0 is clamped to 0x7FFF'FFFF.
RightShiftClamped ==
    /\ RightShift
    /\ ShiftCount = 1
    /\ stk[1].x = <<0, 0, 64, 0>>
    /\ regs.a0 = Max32
    /\ regs.fls = 1
    /\ obs.pre.fls = 0

(***************************************************************************)
(* The multiplier and the product bus.                                     *)
(***************************************************************************)
\* a * b for u16 a, b, as the u32 <<low word, high word>>.
Mul16(a, b) ==
    LET t0 == (a % 256) * (b % 256)
        mid == (a % 256) * (b \div 256) + (a \div 256) * (b % 256)
        t2 == (a \div 256) * (b \div 256)
        low == t0 + (mid % 256) * 256
    IN  <<low % 65536, t2 + (mid \div 256) + (low \div 65536)>>

\* x * y on u32 (modulo 2^32).
Mul32(x, y) ==
    LET ll == Mul16(x[1], y[1])
        cross == Mul16(x[1], y[2])[1] + Mul16(x[2], y[1])[1]
    IN  <<ll[1], (ll[2] + cross) % 65536>>

\* SignExtend<16>(x) of the u32 x, and the u32 of a u16.
SignExtend16U32(x) == <<x, IF x >= 32768 THEN 65535 ELSE 0>>

\* The y operand after the half-word mode ym.
HalfWord(r, unit) ==
    IF r.ym = 1 \/ (r.ym = 3 /\ unit = 0) THEN r.y[unit] \div 256
    ELSE IF r.ym = 2 \/ (r.ym = 3 /\ unit = 1) THEN r.y[unit] % 256
    ELSE r.y[unit]

\* A faulty variant of DoMultiplication: psign is never set.
DoMultiplication_no_psign(s, unit, x_sign, y_sign) ==
    LET x == IF x_sign THEN SignExtend16U32(s.regs.x[unit]) ELSE <<s.regs.x[unit], 0>>
        y == IF y_sign THEN SignExtend16U32(HalfWord(s.regs, unit))
             ELSE <<HalfWord(s.regs, unit), 0>>
    IN  [s EXCEPT !.regs.p[unit] = Mul32(x, y), !.regs.psign[unit] = 0]

DoMultiplication(s, unit, x_sign, y_sign) ==
    LET x == IF x_sign THEN SignExtend16U32(s.regs.x[unit]) ELSE <<s.regs.x[unit], 0>>
        y == IF y_sign THEN SignExtend16U32(HalfWord(s.regs, unit))
             ELSE <<HalfWord(s.regs, unit), 0>>
        p == Mul32(x, y)
    IN  [s EXCEPT !.regs.p[unit] = p,
                  !.regs.psign[unit] = IF x_sign \/ y_sign THEN p[2] \div 32768 ELSE 0]

ProductToBus40(s, unit) ==
    LET value == <<s.regs.p[unit][1], s.regs.p[unit][2], s.regs.psign[unit], 0>>
        ps == s.regs.ps[unit]
    IN  IF ps = 0 THEN SignExtend(33, value)
        ELSE IF ps = 1 THEN SignExtend(32, Shr64(value, 1))
        ELSE IF ps = 2 THEN SignExtend(34, Shl64(value, 1))
        ELSE SignExtend(35, Shl64(value, 2))

MulSteps == 1

\* Operands at the ends of the signed and the unsigned range and in between.
MulSamples == {0, 1, 2, 255, 256, 21845, 32767, 32768, 32769, 43690, 65534, 65535}

InitMul ==
    \E x \in MulSamples, y \in MulSamples, ym \in {0, 1, 3}, ps \in {0, 1} :
        LET r == [ResetRegs EXCEPT !.x = [i \in 0..1 |-> x], !.y = [i \in 0..1 |-> y],
                                   !.ym = ym, !.ps = [i \in 0..1 |-> ps]]
        IN  /\ regs = r
            /\ mem = <<>>
            /\ pmem = <<>>
            /\ alpha = {0}
            /\ fatal = "none"
            /\ ncycles = MulSteps
            /\ obs = NoObs(r, <<>>)
            /\ reptrk = NoRepTrk
            /\ looptrk = NoLoopTrk
            /\ stk = <<>>

\* DoMultiplication(unit, x_sign, y_sign), then the product read on the bus.
DoMultiplicationCall ==
    \E unit \in 0..1, x_sign \in BOOLEAN, y_sign \in BOOLEAN :
        LET post == DoMultiplication(Now, unit, x_sign, y_sign)
        IN  FnExec("DoMultiplication",
                   [unit |-> unit, x_sign |-> x_sign, y_sign |-> y_sign,
                    bus |-> ProductToBus40(post, unit)],
                   post)

NextMul == DoMultiplicationCall

SpecMul == InitMul /\ [][NextMul]_vars

\* The operand as an integer: a u16 read as signed or as unsigned.
Operand(w, signed) == IF signed /\ w >= 32768 THEN w - 65536 ELSE w

Magnitude(n) == IF n < 0 THEN -n ELSE n

\* a * b for 0 <= a, b <= 65535 by shifting and adding, as a u64.
RECURSIVE ShiftAndAdd(_, _, _)
ShiftAndAdd(a, b, i) ==
    IF i = 16 THEN Zero64
    ELSE Add64(IF Bit(b, i) = 1 THEN Shl64(<<a, 0, 0, 0>>, i) ELSE Zero64,
               ShiftAndAdd(a, b, i + 1))

\* The product of the integers m and n as a 64-bit two's complement number.
ExactProduct(m, n) ==
    LET mag == ShiftAndAdd(Magnitude(m), Magnitude(n), 0)
    IN  IF (m < 0) # (n < 0) THEN Sub64(Zero64, mag) ELSE mag

\* The last call was DoMultiplication with ym = 0 and ps[unit] = 0.
Multiplied ==
    /\ Called("DoMultiplication")
    /\ obs.pre.ym = 0
    /\ obs.pre.ps[stk[1].unit] = 0

\* C36: with ym = 0 and ps[unit] = 0, after DoMultiplication(unit, x_sign,
\* y_sign) the product bus carries the exact product of x[unit] and y[unit],
\* each read as signed or unsigned per its flag, sign-extended to 40 bits,
\* and psign[unit] is bit 31 of the product when an operand is signed and 0
\* when both are unsigned.
C36_ExactProduct ==
    Multiplied =>
        LET u == stk[1].unit
            product == ExactProduct(Operand(obs.pre.x[u], stk[1].x_sign),
                                    Operand(obs.pre.y[u], stk[1].y_sign))
        IN  /\ stk[1].bus = product
            /\ stk[1].bus = SignExtend(40, stk[1].bus)
            /\ regs.psign[u] = IF stk[1].x_sign \/ stk[1].y_sign
                               THEN U64Bit(product, 31) ELSE 0

\* -32768 * 65535 (x signed, y unsigned) = -0x7FFF'8000.
C36_Witness ==
    /\ Multiplied
    /\ stk[1].x_sign
    /\ ~stk[1].y_sign
    /\ obs.pre.x[stk[1].unit] = 32768
    /\ obs.pre.y[stk[1].unit] = 65535
    /\ stk[1].bus = <<32768, 32768, 65535, 65535>>
    /\ regs.psign[stk[1].unit] = 1

(***************************************************************************)
(* Normalization under a repeat: rep k followed by norm a0, rN with a      *)
(* step of StepZIDS, on accumulators with up to 30 redundant sign bits.    *)
(***************************************************************************)
NormCycles == 4

\* 0, 1, 2^29, 2^30, 2^38, -16 and -2^30 - 1.
NormValues ==
    {Zero64, FromInt(1), <<0, 8192, 0, 0>>, <<0, 16384, 0, 0>>, <<0, 0, 64, 0>>,
     FromInt(-16), <<65535, 49151, 65535, 65535>>}

\* The decode table with norm Ax, Rn, StepZIDS (0x94C0 | Ax << 8 | step << 3 | Rn).
NormDecode(w) ==
    IF w \div 512 = 74 /\ (w \div 32) % 8 = 6
    THEN [name |-> "norm", need |-> FALSE, a |-> (w \div 256) % 2, c |-> w % 32]
    ELSE Decode(w)

NormEncode(a, rn, step) == 38080 + 256 * a + 8 * step + rn

NormPrograms ==
    {<<Encode("rep", k, 0), NormEncode(0, rn, step)>> :
        k \in Counts, step \in 0..2, rn \in {0, 3}}

InitNorm ==
    \E prog \in NormPrograms, v \in NormValues, fn \in {0, 1}, r \in {0, 5, 65535},
       z \in {0, 1} :
        Start([ResetRegs EXCEPT !.a0 = v, !.fn = fn, !.r = [i \in 0..7 |-> r], !.r3z = z],
              prog, {0}, NormCycles)

\* decoder.call for the table with norm.
NormCall(s, dec, expand_value) ==
    IF dec.name = "norm"
    THEN norm(s, IF dec.a = 0 THEN "a0" ELSE "a1", dec.c % 8, StepZIDS(dec.c \div 8))
    ELSE Call(s, dec, expand_value, "none")

\* One iteration of the loop of Run(cycles) on a program of rep, norm and nop.
RunNormCycle ==
    /\ fatal = "none"
    /\ ncycles > 0
    /\ \E opcode \in ProgramWords(pmem, alpha, regs.pc) :
         LET dec == NormDecode(opcode)
             pm1 == Bind(pmem, regs.pc, opcode)
             booked == Booked(Now, dec)
             f == RepStep(Fetch(Now, dec)).regs
             loopkind == IF LoopEnd(f)
                         THEN (IF f.bkrep_stack[f.bcn - 1].lc = 0 THEN "pop" ELSE "back")
                         ELSE "none"
         IN  \E expand \in (IF dec.need THEN ProgramWords(pm1, alpha, regs.pc + 1) ELSE {0}) :
               LET post == NormCall(booked, dec, expand)
                   fin == Finished(post)
               IN  /\ regs' = fin.regs
                   /\ mem' = fin.mem
                   /\ pmem' = IF dec.need THEN Bind(pm1, regs.pc + 1, expand) ELSE pm1
                   /\ fatal' = fin.thrown
                   /\ ncycles' = ncycles - 1
                   /\ obs' = [kind |-> "cycle", addr |-> regs.pc, opcode |-> opcode,
                              expand |-> expand, name |-> dec.name, loop |-> loopkind,
                              pre |-> regs, post |-> post, fin |-> fin]
                   /\ reptrk' = NextRepTrk(reptrk, regs, dec, regs.pc, opcode, expand, post, loopkind)
                   /\ looptrk' = NextLoopTrk(looptrk, dec, regs.pc, booked, post, fin, loopkind)
                   /\ UNCHANGED <<alpha, stk>>

NextNorm == RunNormCycle

SpecNorm == InitNorm /\ [][NextNorm]_vars

\* The last cycle executed norm; its operands.
Normed == Cycle("norm") /\ obs.post.thrown = "none"

NormUnit == NormDecode(obs.opcode).c % 8

NormStep == NormDecode(obs.opcode).c \div 8

\* rN after a step of Zero, Increase or Decrease in linear mode (r3 with r3z
\* set is cleared instead).
Stepped(r, unit, step) ==
    IF unit = 3 /\ r.r3z # 0 THEN 0
    ELSE IF step = 0 THEN r.r[unit]
    ELSE IF step = 1 THEN U16(r.r[unit] + 1)
    ELSE U16(r.r[unit] + 65535)

\* C37: with N = 1 norm changes no accumulator, no flag and no Rn; with
\* N = 0 it replaces the accumulator by SE(40, acc << 1), sets C to bit 39
\* of the old value, steps the Rn and sets R = (Rn = 0); so under rep k,
\* once an iteration has left N = 1, the iterations that follow leave the
\* accumulator and Rn as they are.
C37_Norm ==
    Normed =>
        /\ Handled.fn = 1 => obs.post.regs = Handled
        /\ Handled.fn = 0 =>
              /\ obs.post.regs.a0 = SignExtend(40, Add64(Handled.a0, Handled.a0))
              /\ obs.post.regs.fc0 = Bit39(Handled.a0)
              /\ obs.post.regs.r =
                    [Handled.r EXCEPT ![NormUnit] = Stepped(Handled, NormUnit, NormStep)]
              /\ obs.post.regs.fr = Truth(obs.post.regs.r[NormUnit] = 0)
              /\ obs.post.regs.a1 = Handled.a1
              /\ obs.post.regs.b0 = Handled.b0
              /\ obs.post.regs.b1 = Handled.b1
        /\ (obs.pre.rep /\ obs.pre.fn = 1) =>
              /\ regs.a0 = obs.pre.a0
              /\ regs.r = obs.pre.r
              /\ regs.fn = 1

\* rep 2; norm a0, r0+ on 2^29: the first iteration gives 2^30 and N = 1,
\* the second and the third change nothing.
C37_Witness ==
    /\ Normed
    /\ obs.pre.rep
    /\ reptrk.k = 2
    /\ reptrk.n = 3
    /\ obs.pre.fn = 1
    /\ regs.a0 = <<0, 16384, 0, 0>>
    /\ regs.r[0] = 6
    /\ regs.fr = 0

(***************************************************************************)
(* Exponent detection followed by the shift it asks for (SpecBus).         *)
(***************************************************************************)
\* The length of the run of bits equal to sign from position bit downwards.
RECURSIVE SignRun(_, _, _)
SignRun(value, sign, bit) ==
    IF U64Bit(value, bit) # sign THEN 0
    ELSE IF bit = 0 THEN 1
    ELSE 1 + SignRun(value, sign, bit - 1)

\* A faulty variant of Exp: the count is one too high.
Exp_one_more(value) == U16(SignRun(value, U64Bit(value, 39), 38) + 65536 - 7)

\* u16 Exp(u64 value): count - 8 as a u16.
Exp(value) == U16(SignRun(value, U64Bit(value, 39), 38) + 65536 - 8)

\* exp: sv = Exp(value), then the value shifted by sv into a0.
ExpShiftCall ==
    \E v \in BusValues :
        LET s1 == [Now EXCEPT !.regs.sv = Exp(v)]
        IN  FnExec("Exp", [x |-> v, sv |-> s1.regs.sv], ShiftBus40(s1, v, s1.regs.sv, "a0"))

NextBus == BusShiftCall \/ ExpShiftCall

SpecBus == InitBus /\ [][NextBus]_vars

\* The last call shifted a value by its exponent with S = 0.
Normalized == Called("Exp") /\ obs.pre.s = 0

\* The shift count as an integer.
Exponent == IF stk[1].sv >= 32768 THEN stk[1].sv - 65536 ELSE stk[1].sv

\* C38: for a sign-extended 40-bit v, Exp(v) is the number of bits below bit
\* 39 that repeat it, minus 8, and lies in -8..31; ShiftBus40 with S = 0 by
\* that count gives a value that fits in 32 bits (E = 0) and is normalized
\* (N = 1), and sets neither V nor fls.
C38_ExpNormalizes ==
    Normalized =>
        /\ Exponent \in -8..31
        /\ \A c \in 0..39 : (SignExtend(40 - c, stk[1].x) = stk[1].x) <=> (c <= Exponent + 8)
        /\ regs.sv = stk[1].sv
        /\ regs.fe = 0
        /\ regs.fn = 1
        /\ regs.fv = 0
        /\ regs.fls = obs.pre.fls
        /\ Fits32(regs.a0)

\* -2^39 has no redundant sign bit: it is shifted right by 8 to -2^31.
C38_Witness ==
    /\ Normalized
    /\ stk[1].x = <<0, 0, 65408, 65535>>
    /\ Exponent = -8
    /\ regs.a0 = Min32
    /\ obs.pre.sar[1] = 0
    /\ obs.pre.fls = 0

(***************************************************************************)
(* The modulo window (SpecAgu).                                            *)
(***************************************************************************)
\* The last access stepped rU by +1 or -1 in modulo mode with mod # 0.
ModuloUnitStep ==
    /\ obs.kind = "access"
    /\ regs.m[AguUnit] = 1
    /\ regs.brv[AguUnit] = 0
    /\ AguMod # 0
    /\ ConvertArStep(regs.arstep[0]) \in {"Increase", "Decrease", "PlusStep"}

WindowMask == Smear(AguMod)

\* The offset of rU in its window before and after the last access.
OffsetBefore == And16(obs.pre.r[AguUnit], WindowMask)

OffsetAfter == And16(regs.r[AguUnit], WindowMask)

\* The step keeps the bits above the mask, and an offset inside 0..mod moves
\* to its neighbour inside 0..mod, mod and 0 being neighbours.
StaysInWindow ==
    /\ And16(regs.r[AguUnit], Not16(WindowMask)) = And16(obs.pre.r[AguUnit], Not16(WindowMask))
    /\ OffsetBefore <= AguMod =>
          /\ OffsetAfter <= AguMod
          /\ OffsetAfter =
                IF ConvertArStep(regs.arstep[0]) = "Decrease"
                THEN (IF OffsetBefore = 0 THEN AguMod ELSE OffsetBefore - 1)
                ELSE (IF OffsetBefore = AguMod THEN 0 ELSE OffsetBefore + 1)

\* C39 as stated: in modulo mode with mod # 0, legacy or modern, a step of +1
\* or -1 keeps the bits of rU above the mask, and an offset rU & mask <= mod
\* stays <= mod, wrapping from mod to 0 and from 0 to mod.
C39_ModuloWindowAsStated == ModuloUnitStep => StaysInWindow

\* C39, amended: the same for a unit that is not r3 with r3z set nor r7 with
\* r7z set; for those the step clears rU.
C39_ModuloWindow == (ModuloUnitStep /\ ~ZeroSkip) => StaysInWindow

\* 0x108 stepped by -1 with mod = 5 under the legacy rule wraps to 0x10D.
C39_Witness ==
    /\ ModuloUnitStep
    /\ ~ZeroSkip
    /\ regs.legacy_mod = 1
    /\ AguMod = 5
    /\ ConvertArStep(regs.arstep[0]) = "Decrease"
    /\ obs.pre.r[AguUnit] = 264
    /\ regs.r[AguUnit] = 269

(***************************************************************************)
(* The division step: divs executed DivSteps times on the same divisor.    *)
(***************************************************************************)
\* u16 LoadFromMemory(MemImm8 addr)
LoadFromMemory(s, addr) == DataRead(s.mem, addr + s.regs.page * 256)

\* A faulty variant of divs: the divisor is compared one bit too high.
divs_high(s, a, b) ==
    LET da == LoadFromMemory(s, a)
        db == GetAcc(s, b)
        value == Sub64(db, Shl64(<<da, 0, 0, 0>>, 16))
    IN  IF U64Bit(value, 63) = 1
        THEN SetAcc_NoSaturation(s, b, SignExtend(40, Shl64(db, 1)))
        ELSE SetAcc_NoSaturation(s, b, SignExtend(40, Add64(Shl64(value, 1), <<1, 0, 0, 0>>)))

\* divs(MemImm8 a, Ax b)
divs(s, a, b) ==
    LET da == LoadFromMemory(s, a)
        db == GetAcc(s, b)
        value == Sub64(db, Shl64(<<da, 0, 0, 0>>, 15))
    IN  IF U64Bit(value, 63) = 1
        THEN SetAcc_NoSaturation(s, b, SignExtend(40, Shl64(db, 1)))
        ELSE SetAcc_NoSaturation(s, b, SignExtend(40, Add64(Shl64(value, 1), <<1, 0, 0, 0>>)))

DivSteps == 16

\* The address of the divisor in the page.
DivisorAt == 5

Divisors == {0, 1, 2, 3, 7, 255, 256, 32768, 65535}

\* The dividend is high * 2^16 + low.
DividendLow == {0, 1, 5, 32768, 65535}

DividendHigh == {0, 1, 2, 6, 254, 255, 32767, 65534}

InitDivs ==
    \E d \in Divisors, low \in DividendLow, high \in DividendHigh, page \in {0, 1} :
        LET r == [ResetRegs EXCEPT !.a0 = <<low, high, 0, 0>>, !.page = page]
            m == DataWrite(<<>>, DivisorAt + 256 * page, d)
        IN  /\ regs = r
            /\ mem = m
            /\ pmem = <<>>
            /\ alpha = {0}
            /\ fatal = "none"
            /\ ncycles = DivSteps
            /\ obs = NoObs(r, m)
            /\ reptrk = NoRepTrk
            /\ looptrk = NoLoopTrk
            /\ stk = <<[n |-> <<low, high, 0, 0>>, d |-> d, done |-> 0]>>

\* One execution of divs [DivisorAt], a0.
DivsCall ==
    /\ fatal = "none"
    /\ ncycles > 0
    /\ LET post == divs(Now, DivisorAt, "a0")
       IN  /\ regs' = post.regs
           /\ mem' = post.mem
           /\ fatal' = post.thrown
    /\ ncycles' = ncycles - 1
    /\ obs' = [obs EXCEPT !.kind = "call", !.name = "divs", !.pre = regs]
    /\ stk' = <<[stk[1] EXCEPT !.done = @ + 1]>>
    /\ UNCHANGED <<pmem, alpha, reptrk, looptrk>>

NextDivs == DivsCall

SpecDivs == InitDivs /\ [][NextDivs]_vars

\* divs has run 16 times on a divisor D >= 1 and a dividend N < D * 2^16.
Divided ==
    /\ Called("divs")
    /\ stk[1].done = 16
    /\ stk[1].d >= 1
    /\ stk[1].n[2] < stk[1].d

\* C40: 16 executions of divs with the same divisor D >= 1 on an accumulator
\* holding N, 0 <= N < D * 2^16, leave the quotient floor(N / D) in the low
\* 16 bits and the remainder N mod D above them: the accumulator is
\* R * 2^16 + Q with N = Q * D + R and 0 <= R < D.
C40_Division ==
    Divided =>
        LET q == regs.a0[1]
            r == regs.a0[2]
            qd == Mul16(q, stk[1].d)
        IN  /\ regs.a0[3] = 0
            /\ regs.a0[4] = 0
            /\ r < stk[1].d
            /\ Add64(<<qd[1], qd[2], 0, 0>>, <<r, 0, 0, 0>>) = stk[1].n

\* 0xFFFE'FFFF divided by 0xFFFF: quotient 0xFFFF, remainder 0xFFFE.
C40_Witness ==
    /\ Divided
    /\ stk[1].d = 65535
    /\ stk[1].n = <<65535, 65534, 0, 0>>
    /\ regs.a0 = <<65535, 65534, 0, 0>>

====
